---- MODULE Spec2Model ----
(***************************************************************************)
(* Incremental sync of confluence-markdown-exporter: the persisted export  *)
(* state (state.py), scope replay and sync execution (sync.py) and the CLI *)
(* commands that drive them (main.py).                                     *)
(*                                                                         *)
(* Python dicts (state.pages, current_pages, merged) are functions whose   *)
(* DOMAIN is the key set; their iteration order is taken as ascending id.  *)
(* Timestamps are natural numbers read from a clock that never runs back.  *)
(***************************************************************************)
EXTENDS Integers, Sequences, FiniteSets, TLC

\* ------------------------------------------------------------------ bounds
NumPages == 2
MaxVersion == 2
MaxClock == 1
MaxEnv == 1
MaxCmds == 3
MaxFail == 1
MaxScopes == 3
MaxIds == 2
MaxUrlLen == 3
MaxSaves == 2

Pages == 1..NumPages
Versions == 1..MaxVersion

\* ------------------------------------------------------- remote topology
\* Page 2 is a child of page 1; pages 1 and 2 live in space "A", every
\* further page is a root page of space "B".
SpaceKeys == {"A", "B"}

SpaceOf(p) == IF p <= 2 THEN "A" ELSE "B"

Parent(p) == IF p = 2 THEN 1 ELSE 0

\* where an exported page lands in the output tree
Paths == {"a.md", "b.md"}

DefaultPath(p) == IF p = 1 THEN "a.md" ELSE "b.md"

\* a URL is the sequence of its characters; the configured Confluence
\* URLs are those of two instances, one of them also written with a
\* trailing slash
Url1 == <<"u">>

Urls == {Url1, <<"u", "/">>, <<"v">>}

\* ------------------------------------------------------------- helpers
\* Command line arguments and scope args are strings; page ids are numbers.
Digits == <<"1", "2", "3", "4">>

\* str(page_id)
PageStr(p) == Digits[p]

\* str.isdigit()
isdigit(s) == \E i \in 1..Len(Digits) : Digits[i] = s

\* int(page_id_str)
StrToInt(s) == CHOOSE i \in 1..Len(Digits) : Digits[i] = s

\* int(page_id_str) raises ValueError
IntRaises(s) == ~isdigit(s)

\* a page given on the command line by its URL
PageUrls == <<"url1", "url2", "url3", "url4">>

PageUrl(p) == PageUrls[p]

\* the elements of a set of page ids as a list in ascending order
SortedSeq(S) == SelectSeq([i \in 1..NumPages |-> i], LAMBDA i : i \in S)

SeqToSet(s) == {s[i] : i \in 1..Len(s)}

\* dict.update(): the entries of d2 overwrite those of d1
DictUpdate(d1, d2) == d2 @@ d1

EmptyDict == << >>

\* ------------------------------------------------------------- state.py
NoTs == -1

PageState(v, t, path, st) ==
    [version |-> v, last_exported |-> t, output_path |-> path, status |-> st]

ScopeEntry(c, a) == [command |-> c, args |-> a]

ExportState(url, scopes) ==
    [schema_version |-> 1, confluence_url |-> url, scopes |-> scopes,
     min_export_timestamp |-> NoTs, pages |-> EmptyDict]

\* str.rstrip("/")
RECURSIVE Rstrip(_)
Rstrip(u) ==
    IF u # << >> /\ u[Len(u)] = "/" THEN Rstrip(SubSeq(u, 1, Len(u) - 1))
    ELSE u

\* validate_state_url that compares the URLs as they are written
validate_state_urlExact(state, current_url, update) ==
    IF state.confluence_url # current_url
    THEN IF update
         THEN [ok |-> TRUE, state |-> [state EXCEPT !.confluence_url = current_url]]
         ELSE [ok |-> FALSE, state |-> state]
    ELSE [ok |-> TRUE, state |-> state]

\* validate_state_url: [ok |-> FALSE] is the raised ValueError
validate_state_url(state, current_url, update) ==
    IF Rstrip(state.confluence_url) # Rstrip(current_url)
    THEN IF update
         THEN [ok |-> TRUE, state |-> [state EXCEPT !.confluence_url = current_url]]
         ELSE [ok |-> FALSE, state |-> state]
    ELSE [ok |-> TRUE, state |-> state]

\* update_page_state that keeps the status of a record it overwrites
update_page_stateKeepsStatus(state, page_id, version, output_path, now) ==
    [state EXCEPT !.pages =
        (page_id :> PageState(version, now, output_path,
                              IF page_id \in DOMAIN state.pages
                              THEN state.pages[page_id].status
                              ELSE "active")) @@ @]

\* update_page_state that replaces state.pages by the one record
update_page_stateAlone(state, page_id, version, output_path, now) ==
    [state EXCEPT !.pages =
        (page_id :> PageState(version, now, output_path, "active"))]

update_page_state(state, page_id, version, output_path, now) ==
    [state EXCEPT !.pages =
        (page_id :> PageState(version, now, output_path, "active")) @@ @]

EmptyDelta ==
    [new |-> << >>, modified |-> << >>, stale |-> << >>,
     deleted |-> << >>, unchanged |-> << >>]

\* Classify that looks at the sentinel before it looks for the record
ClassifySentinelFirst(state, current_pages, page_id) ==
    LET current_version == current_pages[page_id] IN
    IF current_version <= 0
    THEN "modified"
    ELSE IF page_id \notin DOMAIN state.pages
            \/ state.pages[page_id].status = "deleted"
    THEN "new"
    ELSE IF current_version > state.pages[page_id].version
    THEN "modified"
    ELSE IF state.min_export_timestamp # NoTs
            /\ state.pages[page_id].last_exported < state.min_export_timestamp
    THEN "stale"
    ELSE "unchanged"

\* Classify that looks at the threshold before it compares the versions
ClassifyStaleFirst(state, current_pages, page_id) ==
    LET current_version == current_pages[page_id] IN
    IF page_id \notin DOMAIN state.pages
       \/ state.pages[page_id].status = "deleted"
    THEN "new"
    ELSE IF current_version <= 0
    THEN "modified"
    ELSE IF state.min_export_timestamp # NoTs
            /\ state.pages[page_id].last_exported < state.min_export_timestamp
    THEN "stale"
    ELSE IF current_version > state.pages[page_id].version
    THEN "modified"
    ELSE "unchanged"

\* Classify with <= where the code compares last_exported with <
ClassifyStaleNotStrict(state, current_pages, page_id) ==
    LET current_version == current_pages[page_id] IN
    IF page_id \notin DOMAIN state.pages
       \/ state.pages[page_id].status = "deleted"
    THEN "new"
    ELSE IF current_version <= 0
    THEN "modified"
    ELSE IF current_version > state.pages[page_id].version
    THEN "modified"
    ELSE IF state.min_export_timestamp # NoTs
            /\ state.pages[page_id].last_exported <= state.min_export_timestamp
    THEN "stale"
    ELSE "unchanged"

\* Classify with >= where the code compares versions with >
ClassifyNotStrict(state, current_pages, page_id) ==
    LET current_version == current_pages[page_id] IN
    IF page_id \notin DOMAIN state.pages
       \/ state.pages[page_id].status = "deleted"
    THEN "new"
    ELSE IF current_version <= 0
    THEN "modified"
    ELSE IF current_version >= state.pages[page_id].version
    THEN "modified"
    ELSE IF state.min_export_timestamp # NoTs
            /\ state.pages[page_id].last_exported < state.min_export_timestamp
    THEN "stale"
    ELSE "unchanged"

\* the bucket the first loop of compute_delta puts page_id into
Classify(state, current_pages, page_id) ==
    LET current_version == current_pages[page_id] IN
    IF page_id \notin DOMAIN state.pages
       \/ state.pages[page_id].status = "deleted"
    THEN "new"
    ELSE IF current_version <= 0
    THEN "modified"
    ELSE IF current_version > state.pages[page_id].version
    THEN "modified"
    ELSE IF state.min_export_timestamp # NoTs
            /\ state.pages[page_id].last_exported < state.min_export_timestamp
    THEN "stale"
    ELSE "unchanged"

RECURSIVE ClassifyLoop(_, _, _, _)
\* first loop of compute_delta: one append per key of current_pages
ClassifyLoop(delta, state, current_pages, ids) ==
    IF ids = << >> THEN delta
    ELSE LET page_id == Head(ids)
             b == Classify(state, current_pages, page_id)
         IN ClassifyLoop([delta EXCEPT ![b] = Append(@, page_id)],
                         state, current_pages, Tail(ids))

RECURSIVE DeletedLoopNoSkip(_, _, _, _)
\* DeletedLoop without the skip of the records that are deleted already
DeletedLoopNoSkip(delta, state, current_pages, ids) ==
    IF ids = << >> THEN delta
    ELSE LET page_id == Head(ids)
             d == IF page_id \notin DOMAIN current_pages
                  THEN [delta EXCEPT !.deleted = Append(@, page_id)]
                  ELSE delta
         IN DeletedLoopNoSkip(d, state, current_pages, Tail(ids))

RECURSIVE DeletedLoopNoMembership(_, _, _, _)
\* DeletedLoop without the test "page_id not in current_pages"
DeletedLoopNoMembership(delta, state, current_pages, ids) ==
    IF ids = << >> THEN delta
    ELSE LET page_id == Head(ids)
             d == IF state.pages[page_id].status = "deleted"
                  THEN delta
                  ELSE [delta EXCEPT !.deleted = Append(@, page_id)]
         IN DeletedLoopNoMembership(d, state, current_pages, Tail(ids))

RECURSIVE DeletedLoop(_, _, _, _)
\* second loop of compute_delta: active records that current_pages lacks
DeletedLoop(delta, state, current_pages, ids) ==
    IF ids = << >> THEN delta
    ELSE LET page_id == Head(ids)
             d == IF state.pages[page_id].status = "deleted"
                  THEN delta
                  ELSE IF page_id \notin DOMAIN current_pages
                  THEN [delta EXCEPT !.deleted = Append(@, page_id)]
                  ELSE delta
         IN DeletedLoop(d, state, current_pages, Tail(ids))

compute_delta(state, current_pages) ==
    DeletedLoop(
        ClassifyLoop(EmptyDelta, state, current_pages,
                     SortedSeq(DOMAIN current_pages)),
        state, current_pages, SortedSeq(DOMAIN state.pages))

\* --------------------------------------------------------------- remote
\* What a command sees of the Confluence instance while it runs:
\* remote.ver[p] = 0: the page does not exist (the API answers 404).
\* remote.lwErr: pages whose version-only request fails with another status.
\* remote.fullErr: pages whose full request fails, so that Page.from_id
\* hands back the placeholder page.
\* remote.path[p]: where page p exports to.
Accessible(remote, p) == remote.ver[p] > 0 /\ p \notin remote.fullErr

\* Page.from_id
PageFromId(remote, page_id) ==
    IF Accessible(remote, page_id)
    THEN [id |-> page_id, title |-> "ok",
          page_version |-> remote.ver[page_id],
          export_path |-> remote.path[page_id]]
    ELSE [id |-> page_id, title |-> "Page not accessible",
          page_version |-> 0, export_path |-> ""]

\* Page.from_url: the page the URL names
PageFromUrl(remote, page_url) ==
    PageFromId(remote, CHOOSE i \in 1..Len(PageUrls) : PageUrls[i] = page_url)

\* Page.descendants
Descendants(remote, page_id) ==
    IF remote.ver[page_id] = 0 THEN << >>
    ELSE SortedSeq({p \in Pages : Parent(p) = page_id /\ remote.ver[p] > 0})

\* Space.pages
SpacePages(remote, key) ==
    SortedSeq({p \in Pages : SpaceOf(p) = key /\ remote.ver[p] > 0})

\* Organization.spaces, each with its pages
OrgPages(remote) == SpacePages(remote, "A") \o SpacePages(remote, "B")

\* -------------------------------------------------------------- sync.py
\* HTTP status codes; NoStatus is None
NoStatus == 0

\* what confluence.get_page_by_id(page_id, expand="version") can do: return
\* data, which may lack "version" or its "number", or raise an ApiError or
\* HTTPError that has a status_code attribute or not and a response or not,
\* the response having a status_code or not
NoResponse == [present |-> FALSE]

Response(code) == [present |-> TRUE, status_code |-> code]

Returned(data) == [raised |-> FALSE, data |-> data]

Raised(code, response) ==
    [raised |-> TRUE, status_code |-> code, response |-> response]

\* dict.get(key, default)
DictGet(d, key, default) == IF key \in DOMAIN d THEN d[key] ELSE default

\* the status the except branch of _fetch_page_versions works with
StatusOf(exc) ==
    LET status_code == exc.status_code
        response == exc.response
    IN IF response.present
       THEN IF "status_code" \in DOMAIN response THEN response.status_code
            ELSE status_code
       ELSE status_code

\* FetchOne that drops the id on a 404 only
FetchOne404Only(result, page_id, answer) ==
    IF ~answer.raised
    THEN LET version == DictGet(DictGet(answer.data, "version", EmptyDict),
                                "number", 0)
         IN (page_id :> version) @@ result
    ELSE IF StatusOf(answer) \in {404}
    THEN result
    ELSE (page_id :> 0) @@ result

\* one iteration of the loop of _fetch_page_versions
FetchOne(result, page_id, answer) ==
    IF ~answer.raised
    THEN LET version == DictGet(DictGet(answer.data, "version", EmptyDict),
                                "number", 0)
         IN (page_id :> version) @@ result
    ELSE IF StatusOf(answer) \in {403, 404}
    THEN result
    ELSE (page_id :> 0) @@ result

RECURSIVE FetchAnswers(_, _, _)
\* the loop of _fetch_page_versions, the k-th request being answered by
\* answers[k]
FetchAnswers(result, page_ids, answers) ==
    IF page_ids = << >> THEN result
    ELSE FetchAnswers(FetchOne(result, Head(page_ids), Head(answers)),
                      Tail(page_ids), Tail(answers))

\* get_page_by_id against the instance: a page that is not there answers
\* 404, a failing request 500
GetPageById(remote, page_id) ==
    IF remote.ver[page_id] = 0 THEN Raised(NoStatus, Response(404))
    ELSE IF page_id \in remote.lwErr THEN Raised(NoStatus, Response(500))
    ELSE Returned([version |-> [number |-> remote.ver[page_id]]])

RECURSIVE FetchLoop(_, _, _)
FetchLoop(result, remote, page_ids) ==
    IF page_ids = << >> THEN result
    ELSE LET page_id == Head(page_ids)
         IN FetchLoop(FetchOne(result, page_id, GetPageById(remote, page_id)),
                      remote, Tail(page_ids))

_fetch_page_versions(remote, page_ids) == FetchLoop(EmptyDict, remote, page_ids)

RECURSIVE SpaceIds(_, _)
SpaceIds(remote, args) ==
    IF args = << >> THEN << >>
    ELSE SpacePages(remote, Head(args)) \o SpaceIds(remote, Tail(args))

_replay_spaces_scope(remote, args) ==
    _fetch_page_versions(remote, SpaceIds(remote, args))

_replay_all_spaces_scope(remote) ==
    _fetch_page_versions(remote, OrgPages(remote))

RECURSIVE PagesLoop(_, _, _)
PagesLoop(result, remote, args) ==
    IF args = << >> THEN result
    ELSE LET page == PageFromId(remote, StrToInt(Head(args)))
         IN PagesLoop((page.id :> page.page_version) @@ result,
                      remote, Tail(args))

_replay_pages_scope(remote, args) == PagesLoop(EmptyDict, remote, args)

RECURSIVE DescLoop(_, _, _)
DescLoop(result, remote, args) ==
    IF args = << >> THEN result
    ELSE LET page == PageFromId(remote, StrToInt(Head(args)))
             r1 == (page.id :> page.page_version) @@ result
             descendant_versions ==
                 _fetch_page_versions(remote, Descendants(remote, page.id))
         IN DescLoop(DictUpdate(r1, descendant_versions), remote, Tail(args))

_replay_pages_with_descendants_scope(remote, args) ==
    DescLoop(EmptyDict, remote, args)

\* int(page_id_str) in _replay_pages_scope and
\* _replay_pages_with_descendants_scope raises for an argument of args
ArgsRaise(args) == \E i \in 1..Len(args) : IntRaises(args[i])

\* replay_scopes ends with the ValueError of a scope's handler
ReplayRaises(state) ==
    \E i \in 1..Len(state.scopes) :
        /\ state.scopes[i].command \in {"pages", "pages-with-descendants"}
        /\ ArgsRaise(state.scopes[i].args)

\* the handler replay_scopes picks for a scope; known = FALSE is the
\* "Unknown scope command" branch
Dispatch(remote, scope) ==
    IF scope.command = "spaces"
    THEN [known |-> TRUE, pages |-> _replay_spaces_scope(remote, scope.args)]
    ELSE IF scope.command = "all-spaces"
    THEN [known |-> TRUE, pages |-> _replay_all_spaces_scope(remote)]
    ELSE IF scope.command = "pages"
    THEN [known |-> TRUE, pages |-> _replay_pages_scope(remote, scope.args)]
    ELSE IF scope.command = "pages-with-descendants"
    THEN [known |-> TRUE,
          pages |-> _replay_pages_with_descendants_scope(remote, scope.args)]
    ELSE [known |-> FALSE, pages |-> EmptyDict]

RECURSIVE MergeLoopLastWins(_, _, _)
\* MergeLoop as merged.update(pages): the last scope's version wins
MergeLoopLastWins(merged, pages, ids) ==
    IF ids = << >> THEN merged
    ELSE LET page_id == Head(ids)
             version == pages[page_id]
         IN MergeLoopLastWins((page_id :> version) @@ merged, pages, Tail(ids))

RECURSIVE MergeLoopFirstWins(_, _, _)
\* MergeLoop that keeps the version merged first
MergeLoopFirstWins(merged, pages, ids) ==
    IF ids = << >> THEN merged
    ELSE LET page_id == Head(ids)
             version == pages[page_id]
             m == IF page_id \in DOMAIN merged THEN merged
                  ELSE (page_id :> version) @@ merged
         IN MergeLoopFirstWins(m, pages, Tail(ids))

RECURSIVE MergeLoop(_, _, _)
\* inner loop of replay_scopes over pages.items()
MergeLoop(merged, pages, ids) ==
    IF ids = << >> THEN merged
    ELSE LET page_id == Head(ids)
             version == pages[page_id]
             m == IF page_id \in DOMAIN merged /\ version <= 0
                  THEN merged
                  ELSE IF page_id \notin DOMAIN merged
                          \/ version > merged[page_id]
                  THEN (page_id :> version) @@ merged
                  ELSE merged
         IN MergeLoop(m, pages, Tail(ids))

MergePages(merged, pages) == MergeLoop(merged, pages, SortedSeq(DOMAIN pages))

RECURSIVE ReplayLoop(_, _, _)
ReplayLoop(merged, remote, scopes) ==
    IF scopes = << >> THEN merged
    ELSE LET d == Dispatch(remote, Head(scopes))
         IN ReplayLoop(IF d.known THEN MergePages(merged, d.pages) ELSE merged,
                       remote, Tail(scopes))

replay_scopes(remote, state) == ReplayLoop(EmptyDict, remote, state.scopes)

\* ------------------------------------------------------------ state file
NoState == [schema_version |-> 0]

\* model_dump_json that writes an unset min_export_timestamp as the epoch
model_dump_jsonEpoch(state) ==
    [schema_version |-> state.schema_version,
     confluence_url |-> state.confluence_url,
     scopes |-> state.scopes,
     min_export_timestamp |->
         IF state.min_export_timestamp = NoTs THEN <<"ts", 0>>
         ELSE <<"ts", state.min_export_timestamp>>,
     pages |-> [p \in DOMAIN state.pages |->
                  [version |-> state.pages[p].version,
                   last_exported |-> <<"ts", state.pages[p].last_exported>>,
                   output_path |-> state.pages[p].output_path,
                   status |-> state.pages[p].status]]]

\* ExportState.model_dump_json: the document written to .cme-state.json;
\* an unset min_export_timestamp is written as null
model_dump_json(state) ==
    [schema_version |-> state.schema_version,
     confluence_url |-> state.confluence_url,
     scopes |-> state.scopes,
     min_export_timestamp |->
         IF state.min_export_timestamp = NoTs THEN <<"null", 0>>
         ELSE <<"ts", state.min_export_timestamp>>,
     pages |-> [p \in DOMAIN state.pages |->
                  [version |-> state.pages[p].version,
                   last_exported |-> <<"ts", state.pages[p].last_exported>>,
                   output_path |-> state.pages[p].output_path,
                   status |-> state.pages[p].status]]]

\* json.loads + ExportState.model_validate
model_validate(data) ==
    [schema_version |-> data.schema_version,
     confluence_url |-> data.confluence_url,
     scopes |-> data.scopes,
     min_export_timestamp |->
         IF data.min_export_timestamp[1] = "null" THEN NoTs
         ELSE data.min_export_timestamp[2],
     pages |-> [p \in DOMAIN data.pages |->
                  PageState(data.pages[p].version,
                            data.pages[p].last_exported[2],
                            data.pages[p].output_path,
                            data.pages[p].status)]]

NoFile == [exists |-> FALSE]

\* a state file whose text is not JSON, and one whose text is JSON but not
\* an ExportState (the required confluence_url and scopes are missing)
NotJson == [exists |-> TRUE, text |-> "{"]
NotAState == [exists |-> TRUE, text |-> "{}"]

DamagedFiles == {NotJson, NotAState}

\* json.loads raises JSONDecodeError or model_validate ValidationError
Raises(file) == file \in DamagedFiles

\* the exception that leaves load_state
LoadError == [schema_version |-> -1]

\* load_state that takes a file it cannot read for a missing one
load_stateLenient(file) ==
    IF file = NoFile \/ Raises(file) THEN NoState ELSE model_validate(file)

\* load_state: NoState is the returned None
load_state(file) ==
    IF file = NoFile THEN NoState
    ELSE IF Raises(file) THEN LoadError
    ELSE model_validate(file)

\* How a save_state call can end: "ok", or an error raised by
\* NamedTemporaryFile ("create"), by fd.write ("write") or by replace.
SaveOutcomes == {"ok", "create", "write", "replace"}

TmpName == "tmp1"

\* save_state without the unlink of the except branch
save_stateNoUnlink(dir, state, outcome) ==
    LET json_str == model_dump_json(state)
        tmp_path == IF outcome = "create" THEN "none" ELSE TmpName
        created == IF tmp_path = "none" THEN dir.tmps
                   ELSE dir.tmps \cup {tmp_path}
    IN IF outcome = "ok"
       THEN [ok |-> TRUE, file |-> json_str, tmps |-> created \ {tmp_path}]
       ELSE [ok |-> FALSE, file |-> dir.file, tmps |-> created]

\* save_state that reports success without replacing the state file
save_stateDropped(dir, state, outcome) ==
    [ok |-> TRUE, file |-> dir.file, tmps |-> dir.tmps]

\* save_state on the directory dir = [file, tmps]
save_state(dir, state, outcome) ==
    LET json_str == model_dump_json(state)
        tmp_path == IF outcome = "create" THEN "none" ELSE TmpName
        created == IF tmp_path = "none" THEN dir.tmps
                   ELSE dir.tmps \cup {tmp_path}
    IN IF outcome = "ok"
       THEN [ok |-> TRUE, file |-> json_str, tmps |-> created \ {tmp_path}]
       ELSE [ok |-> FALSE, file |-> dir.file,
             tmps |-> IF tmp_path # "none" THEN created \ {tmp_path}
                      ELSE created]

\* save_state step by step. The text of a file is written in two pieces;
\* a file holds, for each of the two positions, the piece written there or
\* nothing. Piece(json_str, k) is the k-th piece of json_str.
Piece(json_str, k) == [of |-> json_str, k |-> k]

NoPiece == Piece([schema_version |-> 0], 0)

\* the text of a file just created
NoBytes == <<NoPiece, NoPiece>>

\* the text of a file that holds all of json_str
WholeText(json_str) == <<Piece(json_str, 1), Piece(json_str, 2)>>

\* fd.write, the k-th piece
WritePiece(text, json_str, k) == [text EXCEPT ![k] = Piece(json_str, k)]

TmpNames == {TmpName, "tmp2", "tmp3"}

\* NamedTemporaryFile that takes the same name every time
NamedTemporaryFileFixed(existing) == {TmpName}

\* NamedTemporaryFile(dir=output_path, suffix=".tmp", delete=False): the
\* names it can create, none of them the name of an existing file
NamedTemporaryFile(existing) == TmpNames \ existing

\* ------------------------------------------------------------- main.py
\* check_state_file_guard that appends the scope without looking for it
check_state_file_guardNoLookup(file, append, command, args, confluence_url) ==
    LET new_scope == ScopeEntry(command, args)
        existing_state == load_state(file)
    IN IF existing_state # NoState
       THEN IF ~append
            THEN [result |-> "exit", state |-> NoState]
            ELSE LET v == validate_state_url(existing_state, confluence_url, FALSE)
                 IN IF ~v.ok
                    THEN [result |-> "raise", state |-> NoState]
                    ELSE [result |-> "ok",
                          state |-> [v.state EXCEPT !.scopes = Append(@, new_scope)]]
       ELSE [result |-> "ok", state |-> ExportState(confluence_url, <<new_scope>>)]

\* check_state_file_guard that takes --append as given
check_state_file_guardAppends(file, append, command, args, confluence_url) ==
    LET new_scope == ScopeEntry(command, args)
        existing_state == load_state(file)
    IN IF existing_state # NoState
       THEN LET v == validate_state_url(existing_state, confluence_url, FALSE)
            IN IF ~v.ok
               THEN [result |-> "raise", state |-> NoState]
               ELSE [result |-> "ok",
                     state |->
                       IF new_scope \notin SeqToSet(v.state.scopes)
                       THEN [v.state EXCEPT !.scopes = Append(@, new_scope)]
                       ELSE v.state]
       ELSE [result |-> "ok", state |-> ExportState(confluence_url, <<new_scope>>)]

\* check_state_file_guard without the call of validate_state_url
check_state_file_guardNoValidate(file, append, command, args, confluence_url) ==
    LET new_scope == ScopeEntry(command, args)
        existing_state == load_state(file)
    IN IF existing_state # NoState
       THEN IF ~append
            THEN [result |-> "exit", state |-> NoState]
            ELSE [result |-> "ok",
                  state |->
                    IF new_scope \notin SeqToSet(existing_state.scopes)
                    THEN [existing_state EXCEPT !.scopes = Append(@, new_scope)]
                    ELSE existing_state]
       ELSE [result |-> "ok", state |-> ExportState(confluence_url, <<new_scope>>)]

\* check_state_file_guard; result "exit" is SystemExit(1), "raise" the
\* ValueError of validate_state_url
check_state_file_guard(file, append, command, args, confluence_url) ==
    LET new_scope == ScopeEntry(command, args)
        existing_state == load_state(file)
    IN IF existing_state = LoadError
       THEN [result |-> "raise", state |-> NoState]
       ELSE IF existing_state # NoState
       THEN IF ~append
            THEN [result |-> "exit", state |-> NoState]
            ELSE LET v == validate_state_url(existing_state, confluence_url, FALSE)
                 IN IF ~v.ok
                    THEN [result |-> "raise", state |-> NoState]
                    ELSE [result |-> "ok",
                          state |->
                            IF new_scope \notin SeqToSet(v.state.scopes)
                            THEN [v.state EXCEPT !.scopes = Append(@, new_scope)]
                            ELSE v.state]
       ELSE [result |-> "ok", state |-> ExportState(confluence_url, <<new_scope>>)]

\* Page.from_id(int(p)) if p.isdigit() else Page.from_url(p)
PageOfArg(remote, p) ==
    IF isdigit(p) THEN PageFromId(remote, StrToInt(p))
    ELSE PageFromUrl(remote, p)

\* the page ids an export command hands to export_and_track
CommandPageIds(remote, command, args) ==
    IF command = "pages"
    THEN [i \in 1..Len(args) |-> PageOfArg(remote, args[i]).id]
    ELSE IF command = "pages_with_descendants"
    THEN LET RECURSIVE Ids(_)
             Ids(a) == IF a = << >> THEN << >>
                       ELSE LET _page == PageOfArg(remote, Head(a))
                            IN <<_page.id>> \o Descendants(remote, _page.id)
                               \o Ids(Tail(a))
         IN Ids(args)
    ELSE IF command = "spaces"
    THEN SpaceIds(remote, args)
    ELSE OrgPages(remote)

\* the export commands a user can issue
ExportCommands ==
    {ScopeEntry("pages", <<"1">>)}
    \cup {ScopeEntry("pages_with_descendants", <<"1">>)}
    \cup {ScopeEntry("spaces", <<"A">>)}
    \cup {ScopeEntry("all_spaces", << >>)}

\* the pages and pages_with_descendants commands with the page given as
\* a URL
UrlCommands ==
    {ScopeEntry("pages", <<PageUrl(1)>>)}
    \cup {ScopeEntry("pages_with_descendants", <<PageUrl(1)>>)}

\* SyncApplies that ignores --dry-run
SyncAppliesAlways(dry_run) == TRUE

\* main.py, sync: execute_sync and the last save_state run unless --dry-run
SyncApplies(dry_run) == ~dry_run

\* ForceThreshold that leaves min_export_timestamp as the state file has it
ForceThresholdKept(st, force, now) == st

\* main.py, sync: --force sets min_export_timestamp to datetime.now() after
\* validate_state_url and before replay_scopes and compute_delta
ForceThreshold(st, force, now) ==
    IF force THEN [st EXCEPT !.min_export_timestamp = now] ELSE st

\* Tracked that lets every exported page through to update_page_state
TrackedAlways(page) == TRUE

\* export_and_track: the test that decides whether an exported page goes on
\* to update_page_state and save_state
Tracked(page) == page.title # "Page not accessible"

\* execute_sync_plan that puts the stale pages first in the batch
execute_sync_planStaleFirst(delta, dry_run) ==
    IF dry_run
    THEN [pages_to_export |-> << >>, deleted |-> << >>]
    ELSE [pages_to_export |-> delta.stale \o delta.new \o delta.modified,
          deleted |-> delta.deleted]

\* execute_sync_plan whose deletion loop also runs over the modified pages
execute_sync_planDeletesModified(delta, dry_run) ==
    IF dry_run
    THEN [pages_to_export |-> << >>, deleted |-> << >>]
    ELSE [pages_to_export |-> delta.new \o delta.modified \o delta.stale,
          deleted |-> delta.deleted \o delta.modified]

\* execute_sync_plan that leaves the modified pages out of the batch
execute_sync_planNoModified(delta, dry_run) ==
    IF dry_run
    THEN [pages_to_export |-> << >>, deleted |-> << >>]
    ELSE [pages_to_export |-> delta.new \o delta.stale,
          deleted |-> delta.deleted]

\* execute_sync: the ids handed to export_and_track and the ids of the
\* deletion loop; nothing at all when dry_run is set
execute_sync_plan(delta, dry_run) ==
    IF dry_run
    THEN [pages_to_export |-> << >>, deleted |-> << >>]
    ELSE [pages_to_export |-> delta.new \o delta.modified \o delta.stale,
          deleted |-> delta.deleted]

\* ---------------------------------------------------- format_sync_report
\* The report is the sequence of its lines. A page line is its prefix and
\* what follows it; the summary line is the list of the parts that
\* ", ".join puts together, each a count and a word.
\* path.output_path if path else f"page {page_id}"
Output(state, page_id) ==
    IF page_id \in DOMAIN state.pages
    THEN state.pages[page_id].output_path
    ELSE <<"page", page_id>>

\* the lines of one loop of format_sync_report
PageLines(prefix, state, ids) ==
    [k \in 1..Len(ids) |->
        [prefix |-> prefix, output |-> Output(state, ids[k])]]

\* format_sync_report that names the stale count even when it is zero
format_sync_reportStaleAlways(delta, state) ==
    PageLines("  new:  ", state, delta.new)
    \o PageLines("  mod:  ", state, delta.modified)
    \o PageLines("  stale:  ", state, delta.stale)
    \o PageLines("  del:  ", state, delta.deleted)
    \o <<[prefix |-> "",
          output |-> <<<<Len(delta.new), "new">>,
                       <<Len(delta.modified), "modified">>,
                       <<Len(delta.stale), "stale">>,
                       <<Len(delta.deleted), "deleted">>,
                       <<Len(delta.unchanged), "unchanged">>>>]>>

format_sync_report(delta, state) ==
    LET n_new == Len(delta.new)
        n_modified == Len(delta.modified)
        n_stale == Len(delta.stale)
        n_deleted == Len(delta.deleted)
        n_unchanged == Len(delta.unchanged)
        parts == <<<<n_new, "new">>, <<n_modified, "modified">>>>
                 \o (IF n_stale # 0 THEN <<<<n_stale, "stale">>>> ELSE << >>)
                 \o <<<<n_deleted, "deleted">>, <<n_unchanged, "unchanged">>>>
    IN PageLines("  new:  ", state, delta.new)
       \o PageLines("  mod:  ", state, delta.modified)
       \o PageLines("  stale:  ", state, delta.stale)
       \o PageLines("  del:  ", state, delta.deleted)
       \o <<[prefix |-> "", output |-> parts]>>

\* ------------------------------------------------------------ lock file
\* utils/lockfile.py. Two lock objects, each in a process of its own, save
\* to the same .confluence-lock.json.
Writers == 1..2

\* the writer whose exports page p belongs to
Owner(p) == ((p - 1) % 2) + 1

PageEntry(title, version, export_path) ==
    [title |-> title, version |-> version, export_path |-> export_path]

ConfluenceLock(last_export, pages) ==
    [lockfile_version |-> 1, last_export |-> last_export, pages |-> pages]

\* no lock file, and the lock file after open(mode="w") and before the
\* text is written
NoLockFile == [exists |-> FALSE]
EmptyText == [exists |-> TRUE, text |-> ""]

\* ConfluenceLock.model_dump_json: the document written to the lock file
LockJson(self) ==
    [lockfile_version |-> self.lockfile_version,
     last_export |-> <<"str", self.last_export>>,
     pages |-> [p \in DOMAIN self.pages |->
                  <<self.pages[p].title, self.pages[p].version,
                    self.pages[p].export_path>>]]

\* ConfluenceLock.load: an empty lock when the file is missing, and also
\* when its text does not validate (ValidationError, "Starting fresh");
\* last_export "" is -1
ConfluenceLockLoad(lockfile) ==
    IF lockfile = NoLockFile \/ lockfile = EmptyText
    THEN ConfluenceLock(-1, EmptyDict)
    ELSE ConfluenceLock(lockfile.last_export[2],
                        [p \in DOMAIN lockfile.pages |->
                           PageEntry(lockfile.pages[p][1], lockfile.pages[p][2],
                                     lockfile.pages[p][3])])

\* add_page for a page with version info
add_page(self, page_id, version) ==
    [self EXCEPT !.pages =
        (page_id :> PageEntry("t", version, DefaultPath(page_id))) @@ @]

\* a process that has not constructed its lock object
NoWriter ==
    [pc |-> "none", self |-> ConfluenceLock(-1, EmptyDict),
     existing |-> ConfluenceLock(-1, EmptyDict),
     \* history: the pages it has added, whether one of them is not saved
     \* yet, and the number of its saves
     own |-> {}, dirty |-> FALSE, saves |-> 0,
     \* history: the record_page calls it made without a lock object
     ignored |-> 0]

\* LockfileManager of one process: pc "none" stands for _lockfile_path and
\* _lock both None
is_enabled(manager) == manager.pc # "none"

\* record_page that adds the page whether or not there is a lock object
record_pageAlways(manager, page_id, version) ==
    [manager EXCEPT !.self = add_page(@, page_id, version)]

\* record_page up to the save: nothing without a lock object
record_page(manager, page_id, version) ==
    IF ~is_enabled(manager)
    THEN manager
    ELSE [manager EXCEPT !.self = add_page(@, page_id, version)]

\* LockfileManager.reset: _lockfile_path and _lock are None again
reset(manager) ==
    [manager EXCEPT !.pc = "none",
                    !.self = ConfluenceLock(-1, EmptyDict),
                    !.existing = ConfluenceLock(-1, EmptyDict),
                    !.own = {}, !.dirty = FALSE]

\* overlap is history: a save has started while another was under way
NoLock ==
    [file |-> NoLockFile, w |-> [i \in Writers |-> NoWriter],
     overlap |-> FALSE]

\* ------------------------------------------------------------ file tree
\* A file is <<zone, path>>: zone "in" lies inside the output directory,
\* zone "out" is where a path leads once it runs through a symlink that
\* points out of the tree.
Resolve(linkedOut, path) == <<IF path \in linkedOut THEN "out" ELSE "in", path>>

\* is_relative_to_root that takes every path to lie inside the tree
is_relative_to_rootAlways(candidate) == TRUE

is_relative_to_root(candidate) == candidate[1] = "in"

\* ---------------------------------------------------------------- state
VARIABLES
    rver,        \* version of each page in Confluence, 0 if it is not there
    rpath,       \* the export path of each page, which follows its title
    cfgUrl,      \* settings.auth.confluence.url
    linkedOut,   \* output paths that resolve out of the output directory
    envN,        \* changes made so far by the environment
    clock,       \* datetime.now()
    cmdN,        \* commands started so far
    stateFile,   \* content of .cme-state.json, or NoFile
    tmpFiles,    \* *.tmp files in the output directory
    files,       \* exported files
    pc,          \* "idle", "run" inside a command, "exited" at its end
    cmd,         \* the command that runs or ran last
    result,      \* how that command ended
    state,       \* its in-memory ExportState
    current,     \* the current_pages its replay_scopes returned
    delta,       \* the SyncDelta it computed and reported
    queue,       \* page ids export_and_track still has to export
    inflight,    \* the page exported but not yet tracked
    delq,        \* ids of delta.deleted still to handle
    delflight,   \* the id whose file was handled but whose save is due
    saveErr,     \* outcome of the save_state call of the last step
    \* history variables, read by the properties only
    run,         \* what the running command met: inaccessible pages, failed
                 \* requests, its scope already recorded
    pending,     \* pages exported by this command and not yet in the state file
    prevSync,    \* an applied sync has completed and nothing changed since
    afterSync,   \* prevSync at the time the reported delta was computed
    resume,      \* an interrupted sync and the sync that follows it
    arg,         \* input of the function under test
    ret,         \* its result
    lock         \* the lock file and the processes that save to it

vars == <<rver, rpath, cfgUrl, linkedOut, envN, clock, cmdN, stateFile, tmpFiles,
          files, pc, cmd, result, state, current, delta, queue, inflight,
          delq, delflight, saveErr, run, pending, prevSync, afterSync,
          resume, arg, ret, lock>>

envVars == <<rver, rpath, cfgUrl, linkedOut, envN, clock>>
diskVars == <<stateFile, tmpFiles, files>>
procVars == <<pc, result, state, queue, inflight, delq, delflight>>
funVars == <<arg, ret, lock>>

\* the instance as seen by requests of which those for the pages in lw
\* (version only) and full (whole page) fail with a transient error
Remote(lw, full) ==
    [ver |-> rver, lwErr |-> lw, fullErr |-> full, path |-> rpath]

NoInflight == [id |-> 0, title |-> "", page_version |-> 0, export_path |-> ""]

NoCmd == [kind |-> "none", force |-> FALSE, dry_run |-> FALSE]

NoRun == [inacc |-> FALSE, failed |-> FALSE, dup |-> FALSE]

NoSync ==
    [on |-> FALSE, inacc |-> FALSE, work |-> {}, force |-> FALSE,
     failed |-> FALSE]

NoResume ==
    [phase |-> "none", goal |-> EmptyDict, work1 |-> {}, recorded |-> {},
     force1 |-> FALSE, failed |-> FALSE, work2 |-> {}, force2 |-> FALSE]

\* nothing has been exported yet and no command runs
Fresh ==
    /\ rver = [p \in Pages |-> 1]
    /\ rpath = [p \in Pages |-> DefaultPath(p)]
    /\ cfgUrl = Url1
    /\ linkedOut = {}
    /\ envN = 0
    /\ clock = 0
    /\ cmdN = 0
    /\ stateFile = NoFile
    /\ tmpFiles = {}
    /\ files = {}
    /\ pc = "idle"
    /\ cmd = NoCmd
    /\ result = "none"
    /\ state = NoState
    /\ current = EmptyDict
    /\ delta = EmptyDelta
    /\ queue = << >>
    /\ inflight = NoInflight
    /\ delq = << >>
    /\ delflight = 0
    /\ saveErr = "none"
    /\ run = NoRun
    /\ pending = {}
    /\ prevSync = NoSync
    /\ afterSync = NoSync
    /\ resume = NoResume
    /\ ret = << >>
    /\ lock = NoLock

Init == Fresh /\ arg = << >>

\* the process is gone: nothing of its memory is left
Stopped(how) ==
    /\ pc' = "exited"
    /\ result' = how
    /\ state' = NoState
    /\ queue' = << >>
    /\ inflight' = NoInflight
    /\ delq' = << >>
    /\ delflight' = 0

\* ---------------------------------------------------- history variables
\* page versions and statuses of a state
Proj(st) ==
    [p \in DOMAIN st.pages |->
        [version |-> st.pages[p].version, status |-> st.pages[p].status]]

RECURSIVE ExportAll(_, _)
\* the records after every id of ids has been exported without failure
ExportAll(st, ids) ==
    IF ids = << >> THEN st
    ELSE LET page == PageFromId(Remote({}, {}), Head(ids))
         IN ExportAll(IF page.title = "Page not accessible" THEN st
                      ELSE update_page_state(st, page.id, page.page_version,
                                             page.export_path, clock),
                      Tail(ids))

RECURSIVE DeleteAll(_, _)
DeleteAll(st, ids) ==
    IF ids = << >> THEN st
    ELSE DeleteAll(IF Head(ids) \in DOMAIN st.pages
                   THEN [st EXCEPT !.pages[Head(ids)].status = "deleted"]
                   ELSE st,
                   Tail(ids))

\* versions and statuses an applied sync leaves when nothing stops it
Uninterrupted(st, d) ==
    Proj(DeleteAll(ExportAll(st, d.new \o d.modified \o d.stale), d.deleted))

\* the pages a sync with delta d processes
Work(d) == SeqToSet(d.new) \cup SeqToSet(d.modified) \cup SeqToSet(d.stale)
           \cup SeqToSet(d.deleted)

HasSentinel(cur) == \E p \in DOMAIN cur : cur[p] <= 0

\* a request of the replay failed: the replay differs from what it yields
\* when every request is answered
ReplayFailed(lw, full, st) ==
    replay_scopes(Remote(lw, full), st) # replay_scopes(Remote({}, {}), st)

\* the state file holds what the process has in memory
Persisted(file, st) == file # NoFile /\ load_state(file) = st

\* a page of the interrupted sync has reached the state file
Recorded(p) ==
    resume' = IF resume.phase = "first"
              THEN [resume EXCEPT !.recorded = @ \cup {p}]
              ELSE resume

\* the state file holds the scope already
AlreadyRecorded(file, sc) ==
    /\ file # NoFile
    /\ ~Raises(file)
    /\ sc \in SeqToSet(load_state(file).scopes)

\* ------------------------------------------------------ export commands
\* pages / pages_with_descendants / spaces / all_spaces up to the call of
\* export_and_track
CmdExport(sc, append) ==
    /\ pc = "idle"
    /\ cmdN < MaxCmds
    /\ cmdN' = cmdN + 1
    /\ cmd' = [kind |-> "export", force |-> FALSE, dry_run |-> FALSE]
    /\ LET g == check_state_file_guard(stateFile, append, sc.command,
                                       sc.args, cfgUrl)
       IN IF g.result = "ok"
          THEN /\ pc' = "run"
               /\ result' = "running"
               /\ state' = g.state
               /\ queue' = CommandPageIds(Remote({}, {}), sc.command, sc.args)
               /\ UNCHANGED <<inflight, delq, delflight>>
          ELSE Stopped(g.result)
    /\ saveErr' = "none"
    /\ run' = [NoRun EXCEPT !.dup = AlreadyRecorded(stateFile, sc)]
    /\ pending' = {}
    /\ prevSync' = NoSync
    /\ afterSync' = NoSync
    /\ resume' = NoResume
    /\ UNCHANGED <<envVars, diskVars, current, delta, funVars>>

\* export_and_track, first half of one iteration: Page.from_id and
\* page.export(); an inaccessible page ends the iteration here
ExportPage(full) ==
    /\ pc = "run"
    /\ queue # << >>
    /\ inflight = NoInflight
    /\ LET page == PageFromId(Remote({}, full), Head(queue))
       IN IF ~Tracked(page)
          THEN /\ run' = [run EXCEPT
                             !.inacc = TRUE,
                             !.failed = @ \/ Accessible(Remote({}, {}), Head(queue))]
               /\ UNCHANGED <<files, inflight, pending>>
          ELSE /\ files' = files \cup {Resolve(linkedOut, page.export_path)}
               /\ inflight' = page
               /\ pending' = pending \cup {page.id}
               /\ UNCHANGED run
    /\ queue' = Tail(queue)
    /\ saveErr' = "none"
    /\ UNCHANGED <<envVars, cmdN, stateFile, tmpFiles, pc, cmd, result, state,
                   current, delta, delq, delflight, prevSync, afterSync,
                   resume, funVars>>

\* export_and_track, second half: update_page_state and save_state
TrackPage(outcome) ==
    /\ pc = "run"
    /\ inflight # NoInflight
    /\ LET st == update_page_state(state, inflight.id, inflight.page_version,
                                   inflight.export_path, clock)
           sv == save_state([file |-> stateFile, tmps |-> tmpFiles], st, outcome)
       IN /\ stateFile' = sv.file
          /\ tmpFiles' = sv.tmps
          /\ pending' = IF Persisted(sv.file, st) THEN {} ELSE pending
          /\ IF sv.ok
             THEN /\ state' = st
                  /\ inflight' = NoInflight
                  /\ Recorded(inflight.id)
                  /\ UNCHANGED <<pc, result, queue, delq, delflight, prevSync>>
             ELSE /\ Stopped("error")
                  /\ prevSync' = NoSync
                  /\ resume' = NoResume
    /\ saveErr' = outcome
    /\ UNCHANGED <<envVars, cmdN, files, cmd, current, delta, run,
                   afterSync, funVars>>

\* DeleteOrphan that marks the record only when it has removed the file
DeleteOrphanIfRemoved(fs, st, linked, page_id) ==
    IF page_id \in DOMAIN st.pages
    THEN LET candidate == Resolve(linked, st.pages[page_id].output_path)
         IN IF is_relative_to_root(candidate) /\ candidate \in fs
            THEN [files |-> fs \ {candidate},
                  state |-> [st EXCEPT !.pages[page_id].status = "deleted"]]
            ELSE [files |-> fs, state |-> st]
    ELSE [files |-> fs, state |-> st]

\* execute_sync, body of the deletion loop up to the save: unlink the
\* orphan file if it lies inside the output directory and is there, and
\* mark the record deleted
DeleteOrphan(fs, st, linked, page_id) ==
    IF page_id \in DOMAIN st.pages
    THEN LET candidate == Resolve(linked, st.pages[page_id].output_path)
         IN [files |-> IF is_relative_to_root(candidate)
                       THEN IF candidate \in fs THEN fs \ {candidate} ELSE fs
                       ELSE fs,
             state |-> [st EXCEPT !.pages[page_id].status = "deleted"]]
    ELSE [files |-> fs, state |-> st]

\* execute_sync, deletion loop up to the save
DeleteFile ==
    /\ pc = "run"
    /\ queue = << >>
    /\ inflight = NoInflight
    /\ delq # << >>
    /\ delflight = 0
    /\ LET d == DeleteOrphan(files, state, linkedOut, Head(delq))
       IN /\ files' = d.files
          /\ state' = d.state
    /\ delflight' = Head(delq)
    /\ delq' = Tail(delq)
    /\ saveErr' = "none"
    /\ UNCHANGED <<envVars, cmdN, stateFile, tmpFiles, pc, cmd, result,
                   current, delta, queue, inflight, run, pending,
                   prevSync, afterSync, resume, funVars>>

\* execute_sync, deletion loop: save_state after the deletion
SaveDeleted(outcome) ==
    /\ pc = "run"
    /\ delflight # 0
    /\ LET sv == save_state([file |-> stateFile, tmps |-> tmpFiles], state, outcome)
       IN /\ stateFile' = sv.file
          /\ tmpFiles' = sv.tmps
          /\ pending' = IF Persisted(sv.file, state) THEN {} ELSE pending
          /\ IF sv.ok
             THEN /\ delflight' = 0
                  /\ Recorded(delflight)
                  /\ UNCHANGED <<pc, result, state, queue, inflight, delq,
                                 prevSync>>
             ELSE /\ Stopped("error")
                  /\ prevSync' = NoSync
                  /\ resume' = NoResume
    /\ saveErr' = outcome
    /\ UNCHANGED <<envVars, cmdN, files, cmd, current, delta, run,
                   afterSync, funVars>>

\* the save_state that ends every export command and every applied sync
Finish(outcome) ==
    /\ pc = "run"
    /\ queue = << >>
    /\ inflight = NoInflight
    /\ delq = << >>
    /\ delflight = 0
    /\ LET sv == save_state([file |-> stateFile, tmps |-> tmpFiles], state, outcome)
       IN /\ stateFile' = sv.file
          /\ tmpFiles' = sv.tmps
          /\ pending' = IF Persisted(sv.file, state) THEN {} ELSE pending
          /\ Stopped(IF sv.ok THEN "ok" ELSE "error")
          /\ prevSync' = IF sv.ok /\ cmd.kind = "sync"
                         THEN [on |-> TRUE, inacc |-> run.inacc, work |-> Work(delta),
                               force |-> cmd.force, failed |-> run.failed]
                         ELSE NoSync
          /\ resume' = IF sv.ok /\ resume.phase = "second"
                       THEN [resume EXCEPT !.phase = "done",
                                           !.failed = @ \/ run.failed]
                       ELSE NoResume
    /\ saveErr' = outcome
    /\ UNCHANGED <<envVars, cmdN, files, cmd, current, delta, run,
                   afterSync, funVars>>

\* ----------------------------------------------------------------- sync
\* sync up to and including the report; a dry run ends here
CmdSync(force, dry_run, lw, full) ==
    /\ pc = "idle"
    /\ cmdN < MaxCmds
    /\ cmdN' = cmdN + 1
    /\ cmd' = [kind |-> "sync", force |-> force, dry_run |-> dry_run]
    /\ LET loaded == load_state(stateFile)
           v == validate_state_url(loaded, cfgUrl, force)
           st == ForceThreshold(v.state, force, clock)
           current_pages == replay_scopes(Remote(lw, full), st)
           d == compute_delta(st, current_pages)
           plan == execute_sync_plan(d, FALSE)
       IN IF loaded = NoState \/ loaded = LoadError \/ ~v.ok
             \/ ReplayRaises(st)
          THEN /\ Stopped(IF loaded = NoState THEN "exit" ELSE "raise")
               /\ current' = EmptyDict
               /\ delta' = EmptyDelta
               /\ run' = NoRun
               /\ afterSync' = NoSync
               /\ resume' = NoResume
          ELSE /\ current' = current_pages
               /\ delta' = d
               /\ run' = [NoRun EXCEPT !.failed = ReplayFailed(lw, full, st)]
               /\ afterSync' = prevSync
               /\ IF SyncApplies(dry_run)
                  THEN /\ pc' = "run"
                       /\ result' = "running"
                       /\ state' = st
                       /\ queue' = plan.pages_to_export
                       /\ delq' = plan.deleted
                       /\ UNCHANGED <<inflight, delflight>>
                       /\ resume' =
                            IF resume.phase = "killed"
                            THEN [resume EXCEPT
                                    !.phase = "second",
                                    !.work2 = Work(d),
                                    !.force2 = force,
                                    !.failed = @ \/ ReplayFailed(lw, full, st)]
                            ELSE [phase |-> "first",
                                  goal |-> Uninterrupted(st, d),
                                  work1 |-> Work(d),
                                  recorded |-> {},
                                  force1 |-> force,
                                  failed |-> ReplayFailed(lw, full, st),
                                  work2 |-> {},
                                  force2 |-> FALSE]
                  ELSE /\ Stopped("ok")
                       /\ resume' = NoResume
    /\ saveErr' = "none"
    /\ pending' = {}
    /\ prevSync' = NoSync
    /\ UNCHANGED <<envVars, diskVars, funVars>>

\* status: load_state and a printed summary; no request, no write
CmdStatus ==
    /\ pc = "idle"
    /\ cmdN < MaxCmds
    /\ cmdN' = cmdN + 1
    /\ cmd' = [kind |-> "status", force |-> FALSE, dry_run |-> FALSE]
    /\ Stopped(IF load_state(stateFile) = LoadError THEN "raise" ELSE "ok")
    /\ current' = EmptyDict
    /\ delta' = EmptyDelta
    /\ saveErr' = "none"
    /\ run' = NoRun
    /\ pending' = {}
    /\ prevSync' = NoSync
    /\ afterSync' = NoSync
    /\ resume' = NoResume
    /\ UNCHANGED <<envVars, diskVars, funVars>>

\* the process is terminated between two steps
Kill ==
    /\ pc = "run"
    /\ Stopped("killed")
    /\ saveErr' = "none"
    /\ prevSync' = NoSync
    /\ resume' = IF resume.phase = "first"
                 THEN [resume EXCEPT !.phase = "killed",
                                     !.failed = @ \/ run.failed]
                 ELSE NoResume
    /\ UNCHANGED <<envVars, cmdN, diskVars, cmd, current, delta, run, pending,
                   afterSync, funVars>>

\* the shell is back at its prompt; what the command printed scrolls away
Return ==
    /\ pc = "exited"
    /\ pc' = "idle"
    /\ cmd' = NoCmd
    /\ result' = "none"
    /\ current' = EmptyDict
    /\ delta' = EmptyDelta
    /\ saveErr' = "none"
    /\ run' = NoRun
    /\ afterSync' = NoSync
    /\ pending' = {}
    /\ resume' = IF resume.phase = "killed" THEN resume ELSE NoResume
    /\ UNCHANGED <<envVars, cmdN, diskVars, state, queue, inflight, delq,
                   delflight, prevSync, funVars>>

\* ---------------------------------------------------------- environment
\* the environment changes between two commands
EnvStep ==
    /\ pc = "idle"
    /\ envN < MaxEnv
    /\ envN' = envN + 1
    /\ prevSync' = NoSync
    /\ resume' = NoResume
    /\ UNCHANGED <<cmdN, diskVars, procVars, cmd, current, delta, saveErr, run,
                   pending, afterSync, funVars>>

\* somebody edits a page: its version goes up
EditPage(p) ==
    /\ rver[p] > 0
    /\ rver[p] < MaxVersion
    /\ rver' = [rver EXCEPT ![p] = @ + 1]
    /\ EnvStep
    /\ UNCHANGED <<rpath, cfgUrl, linkedOut, clock>>

\* a page is removed, or a removed page is restored
TogglePage(p) ==
    /\ rver' = [rver EXCEPT ![p] = IF @ = 0 THEN 1 ELSE 0]
    /\ EnvStep
    /\ UNCHANGED <<rpath, cfgUrl, linkedOut, clock>>

\* page p is removed and page q is given its title: the export path of q
\* becomes the one p had, and the version of q goes up
TakeOver(p, q) ==
    /\ p # q
    /\ rver[p] > 0
    /\ rver[q] > 0
    /\ rver[q] < MaxVersion
    /\ rver' = [rver EXCEPT ![p] = 0, ![q] = @ + 1]
    /\ rpath' = [rpath EXCEPT ![q] = rpath[p]]
    /\ EnvStep
    /\ UNCHANGED <<cfgUrl, linkedOut, clock>>

\* a directory of the output tree becomes a symlink out of the tree
Relink(path) ==
    /\ pc = "idle"
    /\ path \notin linkedOut
    /\ linkedOut' = linkedOut \cup {path}
    /\ prevSync' = NoSync
    /\ resume' = NoResume
    /\ UNCHANGED <<rver, rpath, cfgUrl, envN, clock, cmdN, diskVars, procVars, cmd,
                   current, delta, saveErr, run, pending, afterSync, funVars>>

\* somebody removes an exported file from the output directory
RemoveFile(f) ==
    /\ f \in files
    /\ f[1] = "in"
    /\ files' = files \ {f}
    /\ pc = "idle"
    /\ envN < MaxEnv
    /\ envN' = envN + 1
    /\ prevSync' = NoSync
    /\ resume' = NoResume
    /\ UNCHANGED <<rver, rpath, cfgUrl, linkedOut, clock, cmdN, stateFile, tmpFiles,
                   procVars, cmd, current, delta, saveErr, run, pending,
                   afterSync, funVars>>

\* the state file is overwritten with text that is no state
Damage(f) ==
    /\ pc = "idle"
    /\ stateFile \notin DamagedFiles
    /\ stateFile' = f
    /\ envN < MaxEnv
    /\ envN' = envN + 1
    /\ prevSync' = NoSync
    /\ resume' = NoResume
    /\ UNCHANGED <<rver, rpath, cfgUrl, linkedOut, clock, cmdN, tmpFiles, files,
                   procVars, cmd, current, delta, saveErr, run, pending,
                   afterSync, funVars>>

\* the configured URL is changed
SetUrl(u) ==
    /\ cfgUrl # u
    /\ cfgUrl' = u
    /\ EnvStep
    /\ UNCHANGED <<rver, rpath, linkedOut, clock>>

\* time passes
Tick ==
    /\ clock < MaxClock
    /\ clock' = clock + 1
    /\ UNCHANGED <<rver, rpath, cfgUrl, linkedOut, envN, cmdN, diskVars, procVars,
                   cmd, current, delta, saveErr, run, pending, prevSync,
                   afterSync, resume, funVars>>

\* the steps of the commands; Fail is the family of sets of pages whose
\* requests may fail during one step
Commands(Fail) ==
    \/ \E sc \in ExportCommands, append \in BOOLEAN : CmdExport(sc, append)
    \/ \E full \in Fail : ExportPage(full)
    \/ \E outcome \in SaveOutcomes : TrackPage(outcome)
    \/ DeleteFile
    \/ \E outcome \in SaveOutcomes : SaveDeleted(outcome)
    \/ \E outcome \in SaveOutcomes : Finish(outcome)
    \/ \E force \in BOOLEAN, dry_run \in BOOLEAN, lw \in Fail, full \in Fail :
          CmdSync(force, dry_run, lw, full)
    \/ CmdStatus
    \/ Kill
    \/ Return

\* in one step the requests for at most one page fail, and only those for
\* the pages 1..MaxFail ever do
FailSets == {{}} \cup {{p} : p \in 1..MaxFail}

\* the commands against an instance whose pages are edited, removed and
\* restored and whose requests can fail
Next ==
    \/ Commands(FailSets)
    \/ \E p \in Pages : EditPage(p)
    \/ \E p \in Pages : TogglePage(p)
    \/ Tick

Spec == Init /\ [][Next]_vars

\* the commands with reliable requests, in an environment where pages are
\* removed, the output tree is relinked and the configured URL changes
NextEnv ==
    \/ Commands({{}})
    \/ \E p \in Pages : TogglePage(p)
    \/ \E path \in Paths : Relink(path)
    \/ \E f \in files : RemoveFile(f)
    \/ \E u \in Urls : SetUrl(u)
    \/ Tick

SpecEnv == Init /\ [][NextEnv]_vars

\* the commands with reliable requests, in an environment where pages are
\* removed and the state file is damaged
NextDamage ==
    \/ Commands({{}})
    \/ \E p \in Pages : TogglePage(p)
    \/ \E f \in DamagedFiles : Damage(f)
    \/ Tick

SpecDamage == Init /\ [][NextDamage]_vars

\* the commands with reliable requests against an instance in which a page
\* takes the place of another
NextMove ==
    \/ Commands({{}})
    \/ \E p \in Pages, q \in Pages : TakeOver(p, q)
    \/ Tick

SpecMove == Init /\ [][NextMove]_vars

\* the commands with reliable requests, the pages also given as URLs
NextUrlArg ==
    \/ Commands({{}})
    \/ \E sc \in UrlCommands, append \in BOOLEAN : CmdExport(sc, append)
    \/ \E p \in Pages : EditPage(p)
    \/ Tick

SpecUrlArg == Init /\ [][NextUrlArg]_vars

\* ------------------------------------------------- compute_delta alone
\* the page records a state can hold for page p
PageStates(p) ==
    {PageState(v, t, DefaultPath(p), st) :
        v \in Versions, t \in 0..MaxClock, st \in {"active", "deleted"}}

\* every dict from a subset of the pages that maps p into Range[p]
Dicts(Range) ==
    UNION {{f \in [S -> UNION {Range[p] : p \in S}] :
               \A p \in S : f[p] \in Range[p]} : S \in SUBSET Pages}

CurrentVersions(p) == 0..MaxVersion

InitDelta ==
    /\ Fresh
    /\ \E pages \in Dicts([p \in Pages |-> PageStates(p)]),
          ts \in {NoTs} \cup 0..MaxClock,
          cur \in Dicts([p \in Pages |-> CurrentVersions(p)]) :
          arg = [state |-> [ExportState(Url1, << >>) EXCEPT
                               !.pages = pages,
                               !.min_export_timestamp = ts],
                 current_pages |-> cur]

ApplyDelta ==
    /\ arg # << >>
    /\ ret = << >>
    /\ ret' = compute_delta(arg.state, arg.current_pages)
    /\ UNCHANGED <<envVars, cmdN, diskVars, procVars, cmd, current, delta,
                   saveErr, run, pending, prevSync, afterSync, resume, arg, lock>>

SpecDelta == InitDelta /\ [][ApplyDelta]_vars

\* how often page id p occurs in the five buckets of d
Occurrences(d, p) ==
    Cardinality({<<b, i>> \in
        UNION {{<<b2, i2>> : i2 \in 1..Len(d[b2])} :
               b2 \in {"new", "modified", "stale", "deleted", "unchanged"}} :
        d[b][i] = p})

\* C1: compute_delta puts every id that is a key of current_versions or a
\* non-deleted record of state.pages into exactly one of the five buckets,
\* and no id occurs twice.
C1_Partition ==
    ret # << >> =>
        /\ \A p \in DOMAIN arg.current_pages
                    \cup {q \in DOMAIN arg.state.pages :
                             arg.state.pages[q].status # "deleted"} :
              Occurrences(ret, p) = 1
        /\ \A p \in Pages : Occurrences(ret, p) <= 1

\* a tracked page has vanished while a tombstoned one has come back
C1_Witness ==
    /\ ret # << >>
    /\ Len(ret.deleted) = 1
    /\ \E p \in DOMAIN arg.state.pages :
          /\ arg.state.pages[p].status = "deleted"
          /\ p \in SeqToSet(ret.new)

\* ------------------------------------------------------ sync after sync
\* the delta reports no change and every covered page as unchanged
NothingToDo(d, cur) ==
    /\ d.new = << >>
    /\ d.modified = << >>
    /\ d.stale = << >>
    /\ d.deleted = << >>
    /\ SeqToSet(d.unchanged) = DOMAIN cur

\* a sync has computed its delta right after an applied sync completed,
\* with no change of the remote instance in between
SecondSync == cmd.kind = "sync" /\ afterSync.on

ExistingVersions(S) == [p \in {q \in S : rver[q] > 0} |-> rver[p]]

\* the pages named by args, with their descendants
Families(args) ==
    UNION {{StrToInt(args[i])}
             \cup SeqToSet(Descendants(Remote({}, {}), StrToInt(args[i]))) :
           i \in 1..Len(args)}

\* C3: every scope entry an export command has recorded is dispatched by
\* replay_scopes to its handler, none is skipped as unknown: an all_spaces
\* scope replays to the current version of every page of every space, a
\* pages_with_descendants scope to the versions of the named pages and all
\* their descendants.
C3_RecordedScopesReplayed ==
    stateFile # NoFile =>
        \A i \in 1..Len(load_state(stateFile).scopes) :
            LET scope == load_state(stateFile).scopes[i]
                d == Dispatch(Remote({}, {}), scope)
            IN /\ d.known
               /\ scope.command = "all_spaces"
                     => d.pages = ExistingVersions(Pages)
               /\ (/\ scope.command = "pages_with_descendants"
                   /\ \A j \in 1..Len(scope.args) :
                         rver[StrToInt(scope.args[j])] > 0)
                     => d.pages = ExistingVersions(Families(scope.args))

\* ----------------------------------------------------- progressive saves
\* the state file gets a new or changed active record for page p
RecordedAnew(p) ==
    /\ stateFile' # NoFile
    /\ p \in DOMAIN stateFile'.pages
    /\ stateFile'.pages[p].status = "active"
    /\ \/ stateFile = NoFile
       \/ p \notin DOMAIN stateFile.pages
       \/ stateFile.pages[p] # stateFile'.pages[p]

\* C4: export_and_track saves the state after each successfully exported
\* page: at every point at most one exported page (the one in flight) is
\* missing from the persisted state, and a page is recorded in the
\* persisted state only once its export has completed.
C4_Progressive ==
    /\ [](Cardinality(pending) <= 1)
    /\ [][\A p \in Pages : RecordedAnew(p) => p \in pending]_vars

\* a second page has been exported and is in flight while the first one is
\* already in the state file
C4_Witness ==
    /\ pc = "run"
    /\ inflight # NoInflight
    /\ pending = {inflight.id}
    /\ stateFile # NoFile
    /\ \E p \in DOMAIN stateFile.pages :
          p # inflight.id /\ stateFile.pages[p].status = "active"

\* ------------------------------------------------- resuming a killed sync
\* a sync follows a terminated sync with no remote change in between
Resumed == resume.phase \in {"second", "done"}

\* what C5 states of the following sync
PicksUp ==
    /\ Resumed => resume.work2 = resume.work1 \ resume.recorded
    /\ resume.phase = "done" => Proj(load_state(stateFile)) = resume.goal

C6_SaveFailure ==
    [][saveErr' \in {"write", "replace"} =>
          /\ stateFile' = stateFile
          /\ tmpFiles' = {}
          /\ pc' = "exited"
          /\ result' = "error"]_vars

\* a save has failed on top of an existing state file
C6_Witness ==
    /\ saveErr \in {"write", "replace"}
    /\ stateFile # NoFile
    /\ result = "error"

\* ------------------------------------------------------------- dry run
\* C7: a sync with --dry-run prints the report but exports no page, deletes
\* no file and does not write the state file: the persisted state and the
\* output tree are the same after the command as before, also when --force
\* is given together with --dry-run.
C7_DryRun ==
    [][(pc = "idle" /\ cmd'.kind = "sync" /\ cmd'.dry_run) =>
          /\ stateFile' = stateFile
          /\ tmpFiles' = tmpFiles
          /\ files' = files
          /\ queue' = << >>
          /\ delq' = << >>
          /\ pc' = "exited"
          /\ execute_sync_plan(delta', TRUE)
                = [pages_to_export |-> << >>, deleted |-> << >>]]_vars

\* a dry run with --force against a state file of another URL has reported
\* work to do and has ended
C7_Witness ==
    /\ cmd.kind = "sync"
    /\ cmd.dry_run
    /\ cmd.force
    /\ result = "ok"
    /\ pc = "exited"
    /\ Work(delta) # {}
    /\ load_state(stateFile).confluence_url # cfgUrl

\* ------------------------------------------------ the merge of replay_scopes
\* the per-scope results the merge is applied to: up to MaxScopes dicts
\* with versions 0..MaxVersion, 0 being the sentinel
ScopeResults ==
    LET D == Dicts([p \in Pages |-> CurrentVersions(p)])
    IN UNION {[1..n -> D] : n \in 0..MaxScopes}

RECURSIVE MergeScopes(_, _)
\* the merge loop of replay_scopes run over the results of all scopes
MergeScopes(merged, results) ==
    IF results = << >> THEN merged
    ELSE MergeScopes(MergePages(merged, Head(results)), Tail(results))

InitMerge == Fresh /\ \E r \in ScopeResults : arg = [results |-> r]

ApplyMerge ==
    /\ ret = << >>
    /\ ret' = [merged |-> MergeScopes(EmptyDict, arg.results)]
    /\ UNCHANGED <<envVars, cmdN, diskVars, procVars, cmd, current, delta,
                   saveErr, run, pending, prevSync, afterSync, resume, arg, lock>>

SpecMerge == InitMerge /\ [][ApplyMerge]_vars

\* the versions the scopes report for page p
Reported(results, p) ==
    {results[i][p] : i \in {j \in 1..Len(results) : p \in DOMAIN results[j]}}

Max(S) == CHOOSE v \in S : \A w \in S : w <= v

\* C8: replay_scopes merges the per-scope results so that each id maps to
\* the maximum positive version any scope reported for it: a sentinel 0
\* never replaces a positive version already merged, a positive version
\* always replaces a merged sentinel, and an id reported only with
\* sentinels maps to 0.
C8_Merge ==
    ret # << >> =>
        /\ DOMAIN ret.merged =
              UNION {DOMAIN arg.results[i] : i \in 1..Len(arg.results)}
        /\ \A p \in DOMAIN ret.merged :
              ret.merged[p] = Max(Reported(arg.results, p))
        /\ \A k \in 1..Len(arg.results) : \A p \in DOMAIN arg.results[k] :
              LET before == MergeScopes(EmptyDict, SubSeq(arg.results, 1, k - 1))
                  after == MergePages(before, arg.results[k])
                  version == arg.results[k][p]
              IN p \in DOMAIN before =>
                    /\ (before[p] > 0 /\ version = 0) => after[p] = before[p]
                    /\ (before[p] = 0 /\ version > 0) => after[p] = version

\* a page reported as sentinel, then with a version, then as sentinel
\* again keeps the version, and another page has only sentinels
C8_Witness ==
    /\ ret # << >>
    /\ Len(arg.results) = 3
    /\ \E p \in Pages, q \in Pages :
          /\ p # q
          /\ \A i \in 1..3 : {p, q} \subseteq DOMAIN arg.results[i]
          /\ arg.results[1][p] = 0
          /\ arg.results[2][p] = MaxVersion
          /\ arg.results[3][p] = 0
          /\ ret.merged[p] = MaxVersion
          /\ \A i \in 1..3 : arg.results[i][q] = 0
          /\ ret.merged[q] = 0

\* ------------------------------------------- deletion stays inside the tree
\* C9: execute_sync never deletes a file whose resolved path lies outside
\* the output directory: for a deleted id whose recorded output_path
\* escapes the tree the file is left in place, while its record is still
\* marked deleted and the state is saved.
C9_NoEscape ==
    [][/\ \A f \in files : f[1] = "out" => f \in files'
       /\ (delflight = 0 /\ delflight' # 0 /\ delflight' \in DOMAIN state.pages)
             => state'.pages[delflight'].status = "deleted"
       /\ (delflight # 0 /\ delflight' = 0 /\ pc' = "run")
             => /\ Persisted(stateFile', state)
                /\ delflight \in DOMAIN state.pages
                      => stateFile'.pages[delflight].status = "deleted"]_vars

\* the record of a page is saved as deleted and its file, which lies
\* outside the output directory, is still there
C9_Witness ==
    /\ stateFile # NoFile
    /\ \E p \in DOMAIN stateFile.pages :
          LET candidate == Resolve(linkedOut, stateFile.pages[p].output_path)
          IN /\ stateFile.pages[p].status = "deleted"
             /\ ~is_relative_to_root(candidate)
             /\ candidate \in files
             /\ rver[p] = 0

\* --------------------------------------------------- replay_scopes alone
\* the instance with page versions ver in which the requests for the
\* pages of lw (version only) and full (whole page) fail
RemoteOf(ver, lw, full) ==
    [ver |-> ver, lwErr |-> lw, fullErr |-> full,
     path |-> [p \in Pages |-> DefaultPath(p)]]

\* the scope lists export commands can have recorded
ScopeLists == UNION {[1..n -> ExportCommands] : n \in 1..MaxScopes}

InitReplay ==
    /\ Fresh
    /\ \E scopes \in ScopeLists, ver \in [Pages -> 0..MaxVersion],
          p \in Pages :
          arg = [scopes |-> scopes, ver |-> ver, failing |-> p]

\* replay_scopes while every request for the page arg.failing fails with
\* a transient error
ApplyReplay ==
    /\ ret = << >>
    /\ ret' = [current_pages |->
                 replay_scopes(RemoteOf(arg.ver, {arg.failing}, {arg.failing}),
                               [scopes |-> arg.scopes])]
    /\ UNCHANGED <<envVars, cmdN, diskVars, procVars, cmd, current, delta,
                   saveErr, run, pending, prevSync, afterSync, resume, arg, lock>>

SpecReplay == InitReplay /\ [][ApplyReplay]_vars

\* the lists of page ids a pages or pages-with-descendants scope can hold
ArgLists == UNION {[1..n -> {PageStr(p) : p \in Pages}] : n \in 1..MaxIds}

\* the page scopes under the names replay_scopes knows
PageScopes ==
    {ScopeEntry(c, a) : c \in {"pages", "pages-with-descendants"},
                        a \in ArgLists}

InitOverlap ==
    /\ Fresh
    /\ \E n \in 1..2 :
          \E scopes \in [1..n -> PageScopes], ver \in [Pages -> 0..MaxVersion],
             lw \in SUBSET Pages, full \in SUBSET Pages :
             arg = [scopes |-> scopes, ver |-> ver, lw |-> lw, full |-> full]

\* replay_scopes while the version requests for the pages of arg.lw and
\* the page requests for the pages of arg.full fail
ApplyOverlap ==
    /\ ret = << >>
    /\ ret' = [current_pages |->
                 replay_scopes(RemoteOf(arg.ver, arg.lw, arg.full),
                               [scopes |-> arg.scopes])]
    /\ UNCHANGED <<envVars, cmdN, diskVars, procVars, cmd, current, delta,
                   saveErr, run, pending, prevSync, afterSync, resume, arg, lock>>

SpecOverlap == InitOverlap /\ [][ApplyOverlap]_vars

\* the replay handler of each of the four scope kinds
Handler(remote, scope) ==
    IF scope.command = "spaces" THEN _replay_spaces_scope(remote, scope.args)
    ELSE IF scope.command = "all_spaces" THEN _replay_all_spaces_scope(remote)
    ELSE IF scope.command = "pages" THEN _replay_pages_scope(remote, scope.args)
    ELSE _replay_pages_with_descendants_scope(remote, scope.args)

\* the pages the scopes cover, with their versions, when no request fails
Covered(ver, scopes) ==
    MergeScopes(EmptyDict,
                [i \in 1..Len(scopes) |->
                    Handler(RemoteOf(ver, {}, {}), scopes[i])])

\* C10: a transient fetch failure for a single page during replay, under
\* any of the four scope kinds, does not abort the sync: replay returns a
\* mapping in which that page carries sentinel version 0 and all other
\* pages carry their versions.
C10_TransientFailure ==
    ret # << >> =>
        LET E == Covered(arg.ver, arg.scopes)
        IN (arg.ver[arg.failing] > 0 /\ arg.failing \in DOMAIN E) =>
              ret.current_pages =
                  [q \in DOMAIN E |-> IF q = arg.failing THEN 0 ELSE E[q]]

\* -------------------------------------------- _fetch_page_versions alone
StatusCodes == {403, 404, 500}

\* the data a successful request can return
Datas ==
    {[version |-> [number |-> v]] : v \in Versions}
    \cup {[version |-> EmptyDict], EmptyDict}

\* the exceptions a failed request can raise
Exceptions ==
    {Raised(code, response) :
        code \in {NoStatus} \cup StatusCodes,
        response \in {NoResponse, [present |-> TRUE]}
                     \cup {Response(c) : c \in StatusCodes}}

Answers == {Returned(data) : data \in Datas} \cup Exceptions

InitFetch ==
    /\ Fresh
    /\ \E n \in 0..MaxIds :
          \E page_ids \in [1..n -> Pages], answers \in [1..n -> Answers] :
             arg = [page_ids |-> page_ids, answers |-> answers]

ApplyFetch ==
    /\ ret = << >>
    /\ ret' = [result |-> FetchAnswers(EmptyDict, arg.page_ids, arg.answers)]
    /\ UNCHANGED <<envVars, cmdN, diskVars, procVars, cmd, current, delta,
                   saveErr, run, pending, prevSync, afterSync, resume, arg, lock>>

SpecFetch == InitFetch /\ [][ApplyFetch]_vars

\* the HTTP status an error carries: that of its response if it has one,
\* else that of the exception, else none
ErrorStatus(answer) ==
    IF answer.response.present /\ "status_code" \in DOMAIN answer.response
    THEN answer.response.status_code
    ELSE answer.status_code

\* C11: in _fetch_page_versions, for each requested page id, a successful
\* fetch records the id with its version number, a 403 or 404 error leaves
\* the result as it is (the id is not added), any other error records the
\* id with sentinel version 0, and in all three cases the loop goes on
\* with the next id.
C11_FetchPolicy ==
    ret # << >> =>
        /\ \A k \in 1..Len(arg.page_ids) :
              LET before == FetchAnswers(EmptyDict,
                                         SubSeq(arg.page_ids, 1, k - 1),
                                         SubSeq(arg.answers, 1, k - 1))
                  after == FetchAnswers(EmptyDict,
                                        SubSeq(arg.page_ids, 1, k),
                                        SubSeq(arg.answers, 1, k))
                  page_id == arg.page_ids[k]
                  answer == arg.answers[k]
              IN IF ~answer.raised
                 THEN /\ page_id \in DOMAIN after
                      /\ (\E v \in Versions :
                             answer.data = [version |-> [number |-> v]])
                            => after[page_id] = answer.data.version.number
                      /\ \A q \in DOMAIN before \ {page_id} :
                            q \in DOMAIN after /\ after[q] = before[q]
                 ELSE IF ErrorStatus(answer) \in {403, 404}
                 THEN after = before
                 ELSE /\ page_id \in DOMAIN after
                      /\ after[page_id] = 0
                      /\ \A q \in DOMAIN before \ {page_id} :
                            q \in DOMAIN after /\ after[q] = before[q]
        /\ ret.result = FetchAnswers(EmptyDict, arg.page_ids, arg.answers)
        /\ \A p \in Pages :
              (\A k \in 1..Len(arg.page_ids) :
                  arg.page_ids[k] = p =>
                     /\ arg.answers[k].raised
                     /\ ErrorStatus(arg.answers[k]) \in {403, 404})
                 => p \notin DOMAIN ret.result

\* a 403 for the first id is followed by a fetch of the second id that
\* fails with a 500: the first id is left out, the second carries 0
C11_Witness ==
    /\ ret # << >>
    /\ Len(arg.page_ids) = 2
    /\ arg.page_ids[1] # arg.page_ids[2]
    /\ arg.answers[1].raised
    /\ ErrorStatus(arg.answers[1]) = 403
    /\ arg.answers[2].raised
    /\ ErrorStatus(arg.answers[2]) = 500
    /\ ret.result = (arg.page_ids[2] :> 0)

\* ------------------------------------------------- inaccessible pages
\* export_and_track is at a page that Page.from_id hands back as the
\* placeholder when the requests for the pages of full fail
AtInaccessible(full) ==
    /\ pc = "run"
    /\ queue # << >>
    /\ inflight = NoInflight
    /\ PageFromId(Remote({}, full), Head(queue)).title = "Page not accessible"

\* C12: a page that export reports as inaccessible is still passed to
\* export, but export_and_track neither updates its record nor saves the
\* state for it: an existing record keeps its version, last_exported,
\* output_path and status, no record is created for an id that had none,
\* and the loop goes on with the next page.
C12_Inaccessible ==
    [][\A full \in FailSets :
          (AtInaccessible(full) /\ ExportPage(full)) =>
             /\ run'.inacc
             /\ inflight' = NoInflight
             /\ state' = state
             /\ stateFile' = stateFile
             /\ tmpFiles' = tmpFiles
             /\ queue' = Tail(queue)
             /\ pc' = "run"]_vars

\* a sync had one page to export, a page with a record; its export was
\* reported inaccessible and the record is as it was
C12_Witness ==
    /\ pc = "run"
    /\ cmd.kind = "sync"
    /\ run.inacc
    /\ queue = << >>
    /\ inflight = NoInflight
    /\ Persisted(stateFile, state)
    /\ \E p \in DOMAIN state.pages :
          /\ Work(delta) = {p}
          /\ p \in SeqToSet(delta.modified)
          /\ state.pages[p].status = "active"

\* ------------------------------------------------- records are never removed
\* the ids that have a record in the state file
FileIds(file) == IF file = NoFile THEN {} ELSE DOMAIN file.pages

\* the ids that have a record in the memory of the running command
MemoryIds(st) == IF st = NoState THEN {} ELSE DOMAIN st.pages

\* C13: no operation removes a key from state.pages: an id that has a
\* record in the persisted state has one in every later persisted state,
\* and a command keeps in memory every record it has loaded or made,
\* whatever sequence of export, sync and status commands is run; a record
\* is active or a deleted tombstone.
C13_NeverRemoved ==
    [][/\ FileIds(stateFile) \subseteq FileIds(stateFile')
       /\ state' # NoState =>
             /\ MemoryIds(state) \subseteq MemoryIds(state')
             /\ state = NoState => FileIds(stateFile) \subseteq MemoryIds(state')
       /\ \A p \in FileIds(stateFile') :
             stateFile'.pages[p].status \in {"active", "deleted"}]_vars

\* a page was deleted by a sync and then the status command was run: its
\* record is in the state file as a tombstone
C13_Witness ==
    /\ cmd.kind = "status"
    /\ pc = "exited"
    /\ stateFile # NoFile
    /\ \E p \in DOMAIN stateFile.pages, q \in DOMAIN stateFile.pages :
          /\ stateFile.pages[p].status = "deleted"
          /\ stateFile.pages[q].status = "active"

\* ------------------------------------------------------- the deletion loop
\* execute_sync has returned and the last save_state of sync is due
ExecuteSyncDone ==
    /\ pc = "run"
    /\ cmd.kind = "sync"
    /\ queue = << >>
    /\ inflight = NoInflight
    /\ delq = << >>
    /\ delflight = 0

\* C14: after a non-dry-run execute_sync every id of delta.deleted that
\* has a record in state has status deleted, whether or not its file was
\* there or was removed, and the state is saved once after each id of
\* delta.deleted: each iteration of the deletion loop is one step that
\* handles the file and the record without a save, followed by one save.
C14_DeletedMarked ==
    /\ [](ExecuteSyncDone =>
             \A p \in SeqToSet(delta.deleted) \cap DOMAIN state.pages :
                state.pages[p].status = "deleted")
    /\ [][/\ (pc = "run" /\ delflight = 0 /\ delq' # delq /\ pc' = "run") =>
               /\ delq # << >>
               /\ delq' = Tail(delq)
               /\ delflight' = Head(delq)
               /\ stateFile' = stateFile
               /\ saveErr' = "none"
          /\ (/\ delflight # 0
              /\ <<delflight, delq, pc, state, stateFile>>'
                    # <<delflight, delq, pc, state, stateFile>>
              /\ result' # "killed") =>
               /\ saveErr' \in SaveOutcomes
               /\ delq' = IF pc' = "run" THEN delq ELSE << >>
               /\ pc' = "run" =>
                     /\ saveErr' = "ok"
                     /\ delflight' = 0
                     /\ Persisted(stateFile', state)]_vars

\* a sync has handled two deleted ids: the file of one was removed by the
\* sync, the file of the other lies outside the output directory and is
\* still there; both records are saved as deleted
C14_Witness ==
    /\ ExecuteSyncDone
    /\ Len(delta.deleted) = 2
    /\ Persisted(stateFile, state)
    /\ \A p \in SeqToSet(delta.deleted) : state.pages[p].status = "deleted"
    /\ \E p \in SeqToSet(delta.deleted) :
          Resolve(linkedOut, state.pages[p].output_path) \in files
    /\ \E p \in SeqToSet(delta.deleted) :
          Resolve(linkedOut, state.pages[p].output_path) \notin files

\* ------------------------------------------------------- the stored URL
\* a command starts against a state file whose URL differs from the
\* configured one, trailing slashes aside
StartsMismatched ==
    /\ pc = "idle"
    /\ cmd'.kind # "none"
    /\ ~cmd'.force
    /\ stateFile # NoFile
    /\ Rstrip(stateFile.confluence_url) # Rstrip(cfgUrl)

\* no step of a command run without --force changes the stored URL, on
\* disk or in memory
UrlFixed ==
    ~cmd'.force =>
        /\ stateFile # NoFile => /\ stateFile' # NoFile
                                 /\ stateFile'.confluence_url
                                       = stateFile.confluence_url
        /\ (state # NoState /\ state' # NoState)
              => state'.confluence_url = state.confluence_url
        /\ (state = NoState /\ state' # NoState /\ stateFile # NoFile)
              => state'.confluence_url = stateFile.confluence_url

Failed == pc' = "exited" /\ result' \in {"raise", "exit"}

\* C15 as stated: across any sequence of export commands (with --append),
\* sync and status commands that never use --force, the confluence_url
\* stored in the state never changes, and a command whose configured URL
\* differs from the stored one (ignoring trailing slashes) fails instead
\* of proceeding.
C15_UrlFixed ==
    [][UrlFixed /\ (StartsMismatched => Failed)]_vars

\* C15 amended: the stored URL never changes without --force, and an
\* export command or a sync whose configured URL differs from the stored
\* one fails instead of proceeding; status does not compare the URLs.
C15_UrlFixedExportSync ==
    [][/\ UrlFixed
       /\ (StartsMismatched /\ cmd'.kind \in {"export", "sync"}) => Failed
       /\ (StartsMismatched /\ cmd'.kind = "status") => result' = "ok"]_vars

\* a sync without --force has been refused because the configured URL is
\* not the stored one
C15_Witness ==
    /\ cmd.kind = "sync"
    /\ ~cmd.force
    /\ result = "raise"
    /\ stateFile # NoFile
    /\ Rstrip(stateFile.confluence_url) # Rstrip(cfgUrl)
    /\ \E p \in DOMAIN stateFile.pages : stateFile.pages[p].status = "active"

\* ---------------------------------------------- validate_state_url alone
UrlChars == {"u", "v", "/"}

\* every URL of up to MaxUrlLen characters
UrlStrings == UNION {[1..n -> UrlChars] : n \in 0..MaxUrlLen}

InitUrl ==
    /\ Fresh
    /\ \E stored \in UrlStrings, current_url \in UrlStrings,
          update \in BOOLEAN :
          arg = [state |-> ExportState(stored, << >>),
                 current_url |-> current_url, update |-> update]

ApplyUrl ==
    /\ ret = << >>
    /\ ret' = validate_state_url(arg.state, arg.current_url, arg.update)
    /\ UNCHANGED <<envVars, cmdN, diskVars, procVars, cmd, current, delta,
                   saveErr, run, pending, prevSync, afterSync, resume, arg, lock>>

SpecUrl == InitUrl /\ [][ApplyUrl]_vars

\* n slashes
Slashes(n) == [i \in 1..n |-> "/"]

\* u and v are the same URL followed by any number of slashes each
SameButSlashes(u, v) ==
    \E m \in 0..Len(u), n \in 0..Len(v) :
        /\ SubSeq(u, Len(u) - m + 1, Len(u)) = Slashes(m)
        /\ SubSeq(v, Len(v) - n + 1, Len(v)) = Slashes(n)
        /\ SubSeq(u, 1, Len(u) - m) = SubSeq(v, 1, Len(v) - n)

\* C16: validate_state_url compares the stored and the current URL
\* ignoring trailing slashes; on a mismatch with update false it raises
\* and leaves state.confluence_url unchanged, on a mismatch with update
\* true it sets state.confluence_url to the current URL and does not
\* raise, and on a match it changes nothing and does not raise.
C16_ValidateUrl ==
    ret # << >> =>
        IF SameButSlashes(arg.state.confluence_url, arg.current_url)
        THEN ret.ok /\ ret.state = arg.state
        ELSE IF arg.update
        THEN /\ ret.ok
             /\ ret.state = [arg.state EXCEPT !.confluence_url = arg.current_url]
        ELSE ~ret.ok /\ ret.state = arg.state

\* the stored URL ends with a slash and the current one with two: they
\* match and the stored URL stays as written, update being set
C16_Witness ==
    /\ ret # << >>
    /\ arg.update
    /\ arg.state.confluence_url = <<"u", "/">>
    /\ arg.current_url = <<"u", "/", "/">>
    /\ ret.ok
    /\ ret.state.confluence_url = <<"u", "/">>

\* ------------------------------------------- export over an existing state
\* C17: an export command (pages, pages-with-descendants, spaces,
\* all-spaces) run without --append against an output directory that
\* already holds a state file exits with code 1 before exporting any page
\* and leaves the state file unchanged.
C17_NoAppendRefused ==
    [][\A sc \in ExportCommands :
          (stateFile # NoFile /\ CmdExport(sc, FALSE)) =>
             /\ pc' = "exited"
             /\ result' = "exit"
             /\ queue' = << >>
             /\ inflight' = NoInflight
             /\ stateFile' = stateFile
             /\ tmpFiles' = tmpFiles
             /\ files' = files]_vars

\* an export command has been refused in a directory that holds a state
\* file with a tracked page
C17_Witness ==
    /\ cmd.kind = "export"
    /\ pc = "exited"
    /\ result = "exit"
    /\ stateFile # NoFile
    /\ DOMAIN stateFile.pages # {}
    /\ files # {}

\* ---------------------------------------------------- scopes are not doubled
\* no two entries of scopes have equal command and equal args
NoDuplicates(scopes) ==
    \A i \in 1..Len(scopes), j \in 1..Len(scopes) :
        (/\ scopes[i].command = scopes[j].command
         /\ scopes[i].args = scopes[j].args) => i = j

\* C18: starting from a fresh state, after any sequence of export commands
\* with --append the list state.scopes never contains two entries with
\* equal command and equal args: appending a scope that is already present
\* leaves scopes unchanged, appending a new one adds it at the end.
C18_ScopesUnique ==
    /\ [](state # NoState => NoDuplicates(state.scopes))
    /\ [](stateFile # NoFile => NoDuplicates(stateFile.scopes))
    /\ [][\A sc \in ExportCommands :
             (stateFile # NoFile /\ CmdExport(sc, TRUE) /\ pc' = "run") =>
                state'.scopes =
                   IF \E i \in 1..Len(stateFile.scopes) :
                         /\ stateFile.scopes[i].command = sc.command
                         /\ stateFile.scopes[i].args = sc.args
                   THEN stateFile.scopes
                   ELSE stateFile.scopes \o <<sc>>]_vars

\* an export with --append of a scope the state file already held has
\* completed, and the state file holds two scopes as before
C18_Witness ==
    /\ cmd.kind = "export"
    /\ run.dup
    /\ pc = "exited"
    /\ result = "ok"
    /\ stateFile # NoFile
    /\ Len(stateFile.scopes) = 2

\* ------------------------------------------------ the buckets of the delta
Buckets == {"new", "modified", "stale", "deleted", "unchanged"}

\* id p is in bucket b of delta d and in no other
OnlyIn(d, p, b) ==
    \A c \in Buckets : (p \in SeqToSet(d[c])) <=> (c = b)

\* C19: compute_delta classifies as new every id of current_versions that
\* has no record in state.pages or whose record has status deleted,
\* whatever the reported version is (the sentinel 0 included); such an id
\* is in no other bucket.
C19_New ==
    ret # << >> =>
        \A p \in DOMAIN arg.current_pages :
            (\/ p \notin DOMAIN arg.state.pages
             \/ arg.state.pages[p].status = "deleted")
               => OnlyIn(ret, p, "new")

\* an id without a record and an id with a tombstone are both reported
\* with the sentinel and both are new
C19_Witness ==
    /\ ret # << >>
    /\ \E p \in DOMAIN arg.current_pages, q \in DOMAIN arg.current_pages :
          /\ p \notin DOMAIN arg.state.pages
          /\ q \in DOMAIN arg.state.pages
          /\ arg.state.pages[q].status = "deleted"
          /\ arg.current_pages[p] = 0
          /\ arg.current_pages[q] = 0
          /\ OnlyIn(ret, p, "new")
          /\ OnlyIn(ret, q, "new")

\* C20: an id with an active record that is present in current_versions
\* is classified modified exactly when its current version is <= 0 (the
\* sentinel) or strictly greater than the stored version; a sentinel
\* forces modified even when the stored version is higher.
C20_Modified ==
    ret # << >> =>
        \A p \in DOMAIN arg.current_pages \cap DOMAIN arg.state.pages :
            arg.state.pages[p].status = "active" =>
               /\ (p \in SeqToSet(ret.modified)) <=>
                     (\/ arg.current_pages[p] <= 0
                      \/ arg.current_pages[p] > arg.state.pages[p].version)
               /\ arg.current_pages[p] <= 0 => OnlyIn(ret, p, "modified")

\* a page stored at the highest version and exported before the threshold
\* is reported with the sentinel and is modified, while a page stored at
\* the version reported for it is not
C20_Witness ==
    /\ ret # << >>
    /\ \E p \in DOMAIN arg.current_pages, q \in DOMAIN arg.current_pages :
          /\ p \in DOMAIN arg.state.pages
          /\ arg.state.pages[p].status = "active"
          /\ arg.state.pages[p].version = MaxVersion
          /\ arg.state.min_export_timestamp # NoTs
          /\ arg.state.pages[p].last_exported < arg.state.min_export_timestamp
          /\ arg.current_pages[p] = 0
          /\ OnlyIn(ret, p, "modified")
          /\ q \in DOMAIN arg.state.pages
          /\ arg.state.pages[q].status = "active"
          /\ arg.current_pages[q] = arg.state.pages[q].version
          /\ q \notin SeqToSet(ret.modified)

\* C21: every id that compute_delta classifies as unchanged or as stale
\* has a current version equal to the version stored in its record; an id
\* is never reported unchanged while its remote version differs from the
\* stored one.
C21_VersionsMatch ==
    ret # << >> =>
        \A p \in SeqToSet(ret.unchanged) \cup SeqToSet(ret.stale) :
            /\ p \in DOMAIN arg.current_pages
            /\ p \in DOMAIN arg.state.pages
            /\ arg.current_pages[p] = arg.state.pages[p].version

\* the id has an active record and compute_delta has not put it among
\* the modified
ActiveNotModified(p) ==
    /\ p \in DOMAIN arg.state.pages
    /\ arg.state.pages[p].status = "active"
    /\ p \notin SeqToSet(ret.modified)

\* the threshold is set and the record was exported before it
ExportedBeforeThreshold(p) ==
    /\ arg.state.min_export_timestamp # NoTs
    /\ arg.state.pages[p].last_exported < arg.state.min_export_timestamp

\* C22 as stated: an id with an active record that is not classified
\* modified is classified stale exactly when min_export_timestamp is set
\* and the record's last_exported is strictly earlier than it; otherwise
\* it is unchanged, in particular always when min_export_timestamp is
\* unset or equals last_exported.
C22_Stale ==
    ret # << >> =>
        \A p \in Pages :
            ActiveNotModified(p) =>
               IF ExportedBeforeThreshold(p)
               THEN OnlyIn(ret, p, "stale")
               ELSE OnlyIn(ret, p, "unchanged")

\* C22 amended: the same of an id that is present in current_versions; an
\* active id that is absent from it is deleted, whatever the threshold.
C22_StalePresent ==
    ret # << >> =>
        \A p \in Pages :
            ActiveNotModified(p) =>
               IF p \notin DOMAIN arg.current_pages
               THEN OnlyIn(ret, p, "deleted")
               ELSE IF ExportedBeforeThreshold(p)
               THEN OnlyIn(ret, p, "stale")
               ELSE OnlyIn(ret, p, "unchanged")

\* of two pages reported at their stored versions, one was exported
\* before the threshold and is stale, the other at the threshold and is
\* unchanged
C22_Witness ==
    /\ ret # << >>
    /\ \E p \in DOMAIN arg.current_pages, q \in DOMAIN arg.current_pages :
          /\ ActiveNotModified(p)
          /\ ActiveNotModified(q)
          /\ arg.state.min_export_timestamp # NoTs
          /\ arg.state.pages[p].last_exported < arg.state.min_export_timestamp
          /\ arg.state.pages[q].last_exported = arg.state.min_export_timestamp
          /\ OnlyIn(ret, p, "stale")
          /\ OnlyIn(ret, q, "unchanged")

\* C23: an id whose record in state is not deleted and that is absent from
\* current_versions is classified deleted; an id whose record already has
\* status deleted and that is absent from current_versions appears in no
\* bucket at all.
C23_Deleted ==
    ret # << >> =>
        \A p \in DOMAIN arg.state.pages \ DOMAIN arg.current_pages :
            IF arg.state.pages[p].status # "deleted"
            THEN OnlyIn(ret, p, "deleted")
            ELSE \A b \in Buckets : p \notin SeqToSet(ret[b])

\* of two pages absent from current_versions the active one is deleted
\* and the tombstoned one is in no bucket
C23_Witness ==
    /\ ret # << >>
    /\ arg.current_pages = EmptyDict
    /\ \E p \in DOMAIN arg.state.pages, q \in DOMAIN arg.state.pages :
          /\ arg.state.pages[p].status = "active"
          /\ arg.state.pages[q].status = "deleted"
          /\ ret.deleted = <<p>>
          /\ \A b \in Buckets : q \notin SeqToSet(ret[b])

\* ------------------------------------------------------ sync --force
\* a step that is a sync --force which got past load_state and
\* validate_state_url, and so has computed and reported a delta
ForcedSync ==
    /\ pc = "idle"
    /\ cmdN' # cmdN
    /\ cmd'.kind = "sync"
    /\ cmd'.force
    /\ result' \in {"running", "ok"}

\* the record of page p in the state file is active and its last_exported
\* is strictly earlier than the time t
ExportedBefore(p, t) ==
    /\ p \in DOMAIN load_state(stateFile).pages
    /\ load_state(stateFile).pages[p].status = "active"
    /\ load_state(stateFile).pages[p].last_exported < t

Batch(d) == d.new \o d.modified \o d.stale

\* s is what is left of t after some of its first elements were taken
IsSuffix(s, t) == \E k \in 0..Len(t) : s = SubSeq(t, k + 1, Len(t))

\* a sync that is not a dry run is at work
Syncing == pc = "run" /\ cmd.kind = "sync"

\* the deletion loop has handled its first id
DeletionBegun == delq # delta.deleted \/ delflight # 0

\* C25: a non-dry-run execute_sync hands the ids to export_and_track as
\* one batch in the order new, then modified, then stale, each bucket in
\* its own order, and performs every export before the first deletion: the
\* batch starts as that concatenation, the pages are exported one by one
\* from its head, and the deletion loop, which takes delta.deleted in its
\* order, handles no id while a page of the batch is still to be exported
\* or tracked.
C25_ExportsThenDeletions ==
    /\ [](Syncing =>
            /\ IsSuffix(queue, Batch(delta))
            /\ IsSuffix(delq, delta.deleted)
            /\ inflight # NoInflight =>
                  /\ Len(queue) < Len(Batch(delta))
                  /\ inflight.id = Batch(delta)[Len(Batch(delta)) - Len(queue)]
            /\ DeletionBegun => queue = << >> /\ inflight = NoInflight)
    /\ [][/\ pc = "idle" /\ cmd'.kind = "sync" /\ pc' = "run" =>
               queue' = Batch(delta') /\ delq' = delta'.deleted
          /\ Syncing /\ Syncing' /\ queue' # queue =>
               /\ queue' = Tail(queue)
               /\ inflight' # NoInflight => inflight'.id = Head(queue)
               /\ ~DeletionBegun
          /\ Syncing /\ Syncing' /\ delq' # delq =>
               /\ delq' = Tail(delq)
               /\ delflight' = Head(delq)
               /\ queue = << >> /\ inflight = NoInflight]_vars

\* a sync had pages to export, has exported them all, and is now at the
\* first id of its deletion loop
C25_Witness ==
    /\ Syncing
    /\ Len(Batch(delta)) > 0
    /\ delta.deleted # << >>
    /\ delflight = Head(delta.deleted)
    /\ queue = << >>

\* a sync starts with a batch that holds a stale page and a modified one
C25_TwoBuckets ==
    /\ Syncing
    /\ delta.stale # << >>
    /\ delta.modified # << >>
    /\ queue = Batch(delta)

\* ---------------------------------------------- update_page_state alone
InitUpdate ==
    /\ Fresh
    /\ \E pages \in Dicts([p \in Pages |-> PageStates(p)]),
          ts \in {NoTs} \cup 0..MaxClock,
          scopes \in {<< >>, <<ScopeEntry("pages", <<"1">>)>>},
          page_id \in Pages,
          version \in Versions,
          output_path \in Paths,
          now \in 0..MaxClock :
          arg = [state |-> [ExportState(Url1, scopes) EXCEPT
                               !.pages = pages,
                               !.min_export_timestamp = ts],
                 page_id |-> page_id,
                 version |-> version,
                 output_path |-> output_path,
                 now |-> now]

ApplyUpdate ==
    /\ arg # << >>
    /\ ret = << >>
    /\ ret' = update_page_state(arg.state, arg.page_id, arg.version,
                                arg.output_path, arg.now)
    /\ UNCHANGED <<envVars, cmdN, diskVars, procVars, cmd, current, delta,
                   saveErr, run, pending, prevSync, afterSync, resume, arg, lock>>

SpecUpdate == InitUpdate /\ [][ApplyUpdate]_vars

\* C26: update_page_state(state, id, version, path) sets the record of id
\* to the given version and path with status active and last_exported =
\* now, also when the previous record had status deleted, and leaves every
\* other page record, the scopes, the URL and min_export_timestamp
\* unchanged.
C26_UpdateFrame ==
    ret # << >> =>
        /\ DOMAIN ret.pages = DOMAIN arg.state.pages \cup {arg.page_id}
        /\ ret.pages[arg.page_id] =
              PageState(arg.version, arg.now, arg.output_path, "active")
        /\ \A q \in DOMAIN arg.state.pages \ {arg.page_id} :
              ret.pages[q] = arg.state.pages[q]
        /\ ret.scopes = arg.state.scopes
        /\ ret.confluence_url = arg.state.confluence_url
        /\ ret.min_export_timestamp = arg.state.min_export_timestamp
        /\ ret.schema_version = arg.state.schema_version

\* update_page_state has overwritten a tombstone, with another version,
\* path and time, in a state that holds a scope, a threshold and the record
\* of another page
C26_Witness ==
    /\ ret # << >>
    /\ arg.page_id \in DOMAIN arg.state.pages
    /\ arg.state.pages[arg.page_id].status = "deleted"
    /\ arg.state.pages[arg.page_id].version # arg.version
    /\ arg.state.pages[arg.page_id].output_path # arg.output_path
    /\ arg.state.pages[arg.page_id].last_exported # arg.now
    /\ DOMAIN arg.state.pages # {arg.page_id}
    /\ arg.state.scopes # << >>
    /\ arg.state.min_export_timestamp # NoTs

\* ------------------------------------------------- unreadable state file
\* a step that starts the command kind
Starts(kind) == pc = "idle" /\ cmdN' # cmdN /\ cmd'.kind = kind

\* the step starts no work: nothing is queued for export or deletion, no
\* state is in memory, and the output directory is as it was
NothingDone ==
    /\ pc' = "exited"
    /\ state' = NoState
    /\ queue' = << >>
    /\ delq' = << >>
    /\ UNCHANGED diskVars

\* C27: load_state returns None when the state file is missing; when the
\* file exists but is not valid JSON or fails schema validation, the error
\* propagates to the caller (no empty state is substituted) and the file is
\* left as it is, so sync stops without exporting, deleting or saving
\* anything. A missing file makes sync exit with status 1; while the file
\* is unreadable no command gets to work and the output directory does not
\* change.
C27_LoadState ==
    /\ [](/\ stateFile = NoFile => load_state(stateFile) = NoState
          /\ Raises(stateFile) =>
                /\ load_state(stateFile) = LoadError
                /\ pc # "run")
    /\ [][/\ Starts("sync") /\ stateFile = NoFile =>
               result' = "exit" /\ NothingDone
          /\ Starts("sync") /\ Raises(stateFile) =>
               result' = "raise" /\ NothingDone
          /\ Raises(stateFile) => UNCHANGED diskVars]_vars

\* a sync has stopped with the error of load_state: the state file of an
\* earlier export is unreadable, and the exported files are still there
C27_Witness ==
    /\ pc = "exited"
    /\ cmd.kind = "sync"
    /\ result = "raise"
    /\ Raises(stateFile)
    /\ files # {}

\* ------------------------------------------- save_state then load_state
\* what the output directory can hold before the save: no state file, the
\* state file of another export, or an unreadable one
FilesBefore ==
    {NoFile, model_dump_json(ExportState(<<"v">>, << >>)), NotJson}

InitRoundTrip ==
    /\ Fresh
    /\ \E pages \in Dicts([p \in Pages |-> PageStates(p)]),
          ts \in {NoTs} \cup 0..MaxClock,
          scopes \in {<< >>, <<ScopeEntry("pages", <<"1", "2">>),
                               ScopeEntry("all_spaces", << >>)>>},
          file \in FilesBefore,
          outcome \in SaveOutcomes :
          arg = [state |-> [ExportState(Url1, scopes) EXCEPT
                               !.pages = pages,
                               !.min_export_timestamp = ts],
                 file |-> file,
                 outcome |-> outcome]

\* save_state(output_path, state) followed by load_state(output_path)
ApplyRoundTrip ==
    /\ arg # << >>
    /\ ret = << >>
    /\ ret' = LET sv == save_state([file |-> arg.file, tmps |-> {}],
                                   arg.state, arg.outcome)
              IN [saved |-> sv.ok, file |-> sv.file,
                  loaded |-> load_state(sv.file)]
    /\ UNCHANGED <<envVars, cmdN, diskVars, procVars, cmd, current, delta,
                   saveErr, run, pending, prevSync, afterSync, resume, arg, lock>>

SpecRoundTrip == InitRoundTrip /\ [][ApplyRoundTrip]_vars

nonLockVars ==
    <<envVars, cmdN, diskVars, procVars, cmd, current, delta, saveErr, run,
      pending, prevSync, afterSync, resume, arg, ret>>

\* LockfileManager.init: the lock object is loaded from the lock file
LockfileManagerInit(i) ==
    /\ lock.w[i].pc = "none"
    /\ lock' = [lock EXCEPT !.w[i].pc = "ready",
                            !.w[i].self = ConfluenceLockLoad(lock.file)]
    /\ UNCHANGED nonLockVars

\* record_page, first half: add_page
AddPage(i, p, v) ==
    /\ lock.w[i].pc = "ready"
    /\ Owner(p) = i
    /\ lock.w[i].saves < MaxSaves
    /\ lock' = [lock EXCEPT !.w[i] = [record_page(@, p, v) EXCEPT
                                        !.own = @ \cup {p},
                                        !.dirty = TRUE]]
    /\ UNCHANGED nonLockVars

\* save: existing = ConfluenceLock.load(lockfile_path)
SaveLoad(i) ==
    /\ lock.w[i].pc = "ready"
    /\ lock.w[i].saves < MaxSaves
    /\ lock' = [lock EXCEPT
                  !.w[i].pc = "loaded",
                  !.w[i].existing = ConfluenceLockLoad(lock.file),
                  !.overlap = @ \/ \E j \in Writers \ {i} :
                                      lock.w[j].pc \notin {"none", "ready"}]
    /\ UNCHANGED nonLockVars

\* save: existing.pages.update(self.pages) and existing.last_export = now
SaveUpdate(i) ==
    /\ lock.w[i].pc = "loaded"
    /\ lock' = [lock EXCEPT
                  !.w[i].pc = "merged",
                  !.w[i].existing =
                      ConfluenceLock(clock,
                                     DictUpdate(lock.w[i].existing.pages,
                                                lock.w[i].self.pages))]
    /\ UNCHANGED nonLockVars

\* save: write_text opens the lock file for writing, which empties it
SaveOpen(i) ==
    /\ lock.w[i].pc = "merged"
    /\ lock' = [lock EXCEPT !.w[i].pc = "opened", !.file = EmptyText]
    /\ UNCHANGED nonLockVars

\* save: write_text writes the merged lock and closes the file; self takes
\* over the merged pages and last_export
SaveWrite(i) ==
    /\ lock.w[i].pc = "opened"
    /\ lock' = [lock EXCEPT
                  !.w[i].pc = "ready",
                  !.file = LockJson(lock.w[i].existing),
                  !.w[i].self = lock.w[i].existing,
                  !.w[i].dirty = FALSE,
                  !.w[i].saves = @ + 1]
    /\ UNCHANGED nonLockVars

NextLock ==
    \/ \E i \in Writers : LockfileManagerInit(i)
    \/ \E i \in Writers, p \in Pages, v \in Versions : AddPage(i, p, v)
    \/ \E i \in Writers : SaveLoad(i)
    \/ \E i \in Writers : SaveUpdate(i)
    \/ \E i \in Writers : SaveOpen(i)
    \/ \E i \in Writers : SaveWrite(i)

SpecLock == Init /\ [][NextLock]_vars

\* every process has added page entries and has saved them all
AllSaved ==
    \A i \in Writers :
        /\ lock.w[i].pc = "ready"
        /\ lock.w[i].own # {}
        /\ ~lock.w[i].dirty

\* the lock file holds an entry for every page a process has added
HoldsAll ==
    \A i \in Writers :
        lock.w[i].own \subseteq DOMAIN ConfluenceLockLoad(lock.file).pages

\* C29: ConfluenceLock.save handles concurrent writers by merging with the
\* file on disk: when two lock objects holding different page entries each
\* save to the same lock file, in any interleaving of their read, merge and
\* write steps, the file afterwards contains the page entries of both.
C29_SaveMerges == AllSaved => HoldsAll

\* the same when no save starts while another is under way
C29_SaveMergesInTurn == AllSaved /\ ~lock.overlap => HoldsAll

\* ------------------------------------------- format_sync_report alone
BucketNames == {"new", "modified", "stale", "deleted", "unchanged"}

\* the pages of S in ascending order, or in descending order
RECURSIVE Ordered(_, _)
Ordered(S, descending) ==
    IF S = {} THEN << >>
    ELSE LET p == IF descending
                  THEN CHOOSE x \in S : \A y \in S : y <= x
                  ELSE CHOOSE x \in S : \A y \in S : x <= y
         IN <<p>> \o Ordered(S \ {p}, descending)

\* the delta that puts page p into bucket f[p], or nowhere
DeltaOf(f, descending) ==
    [b \in BucketNames |-> Ordered({p \in Pages : f[p] = b}, descending)]

InitReport ==
    /\ Fresh
    /\ \E f \in [Pages -> BucketNames \cup {"none"}],
          descending \in BOOLEAN,
          pages \in Dicts([p \in Pages |->
                             {PageState(1, 0, path, "active") : path \in Paths}]) :
          arg = [delta |-> DeltaOf(f, descending),
                 state |-> [ExportState(Url1, << >>) EXCEPT !.pages = pages]]

ApplyReport ==
    /\ arg # << >>
    /\ ret = << >>
    /\ ret' = format_sync_report(arg.delta, arg.state)
    /\ UNCHANGED <<envVars, cmdN, diskVars, procVars, cmd, current, delta,
                   saveErr, run, pending, prevSync, afterSync, resume, arg,
                   lock>>

SpecReport == InitReport /\ [][ApplyReport]_vars

\* the ids of the four reported buckets in the order of the report
ReportedIds(d) == d.new \o d.modified \o d.stale \o d.deleted

\* the prefix of the k-th of the lines of the reported ids
PrefixAt(d, k) ==
    IF k <= Len(d.new) THEN "  new:  "
    ELSE IF k <= Len(d.new) + Len(d.modified) THEN "  mod:  "
    ELSE IF k <= Len(d.new) + Len(d.modified) + Len(d.stale) THEN "  stale:  "
    ELSE "  del:  "

\* the part of the summary line that carries the word, if there is one
PartsWith(line, word) ==
    {i \in 1..Len(line.output) : line.output[i][2] = word}

\* C30: format_sync_report emits one line per id of new, modified, stale
\* and deleted, in that group order, followed by exactly one summary line
\* with the counts of every bucket; the stale count appears in the summary
\* exactly when at least one page is stale, and an empty delta yields the
\* summary line only.
C30_Report ==
    ret # << >> =>
        LET d == arg.delta
            n == Len(ReportedIds(d))
            summary == ret[Len(ret)]
        IN /\ Len(ret) = n + 1
           /\ \A k \in 1..n :
                 /\ ret[k].prefix = PrefixAt(d, k)
                 /\ ret[k].output = Output(arg.state, ReportedIds(d)[k])
           /\ {k \in 1..Len(ret) : ret[k].prefix = ""} = {n + 1}
           /\ \A b \in BucketNames \ {"stale"} :
                 \E i \in 1..Len(summary.output) :
                     /\ PartsWith(summary, b) = {i}
                     /\ summary.output[i][1] = Len(d[b])
           /\ PartsWith(summary, "stale") # {} <=> d.stale # << >>
           /\ \A i \in PartsWith(summary, "stale") :
                 summary.output[i][1] = Len(d.stale)
           /\ Cardinality(PartsWith(summary, "stale")) <= 1
           /\ summary.output[1][2] = "new"
           /\ summary.output[2][2] = "modified"
           /\ summary.output[Len(summary.output) - 1][2] = "deleted"
           /\ summary.output[Len(summary.output)][2] = "unchanged"
           /\ ReportedIds(d) = << >> /\ d.unchanged = << >> =>
                 ret = <<[prefix |-> "",
                          output |-> <<<<0, "new">>, <<0, "modified">>,
                                       <<0, "deleted">>, <<0, "unchanged">>>>]>>

\* a report of a delta without a stale page: a new page that has no record
\* and a deleted page, then the summary without a stale count
C30_Witness ==
    /\ ret # << >>
    /\ arg.delta.stale = << >>
    /\ arg.delta.new # << >>
    /\ arg.delta.deleted # << >>
    /\ Head(arg.delta.new) \notin DOMAIN arg.state.pages
    /\ Len(ret) = 3

\* ------------------------------------------------------ LockfileManager
\* record_page of a process that has no lock object
RecordPageDisabled(i, p, v) ==
    /\ lock.w[i].pc = "none"
    /\ Owner(p) = i
    /\ lock.w[i].ignored < MaxSaves
    /\ lock' = [lock EXCEPT !.w[i] = [record_page(@, p, v) EXCEPT
                                        !.ignored = @ + 1]]
    /\ UNCHANGED nonLockVars

\* LockfileManager.reset, between two calls of the process
Reset(i) ==
    /\ lock.w[i].pc = "ready"
    /\ lock' = [lock EXCEPT !.w[i] = reset(@)]
    /\ UNCHANGED nonLockVars

NextManager ==
    \/ NextLock
    \/ \E i \in Writers, p \in Pages, v \in Versions :
          RecordPageDisabled(i, p, v)
    \/ \E i \in Writers : Reset(i)

SpecManager == Init /\ [][NextManager]_vars

\* the lock object and what the process has done to the lock file
Untouched(i) ==
    /\ lock'.w[i].self = lock.w[i].self
    /\ lock'.w[i].pc = lock.w[i].pc
    /\ lock'.file = lock.file

SyncCompleted ==
    /\ pc = "exited"
    /\ cmd.kind = "sync"
    /\ ~cmd.dry_run
    /\ result = "ok"

\* the ids of the active records of the state file
ActiveIds ==
    {p \in DOMAIN load_state(stateFile).pages :
        load_state(stateFile).pages[p].status = "active"}

\* C32: after a non-dry-run sync has completed without error, every page
\* whose record in state is active has its output file present in the
\* output tree; in particular the deletion step never removes a file that
\* the export step of the same sync has just written for another page with
\* the same output_path.
C32_ActiveFilesPresent ==
    SyncCompleted =>
        \A p \in ActiveIds :
            Resolve(linkedOut, load_state(stateFile).pages[p].output_path)
                \in files

\* ------------------------------------------------------- skipped scopes
\* the pages of the instance that a recorded scope which replay_scopes
\* skips as unknown covers, and that the state file holds as active
SkippedActive ==
    {p \in ActiveIds :
        /\ rver[p] > 0
        /\ \E i \in 1..Len(load_state(stateFile).scopes) :
              LET scope == load_state(stateFile).scopes[i]
              IN /\ ~Dispatch(Remote({}, {}), scope).known
                 /\ p \in SeqToSet(CommandPageIds(Remote({}, {}),
                                                  scope.command, scope.args))}

\* C33: when replay_scopes skips a scope entry whose command it does not
\* recognize, the pages previously exported under that scope are not
\* classified as deleted by the following compute_delta and their local
\* files are not removed by the sync: none of them is in the delta a sync
\* computes, and none is handed to the deletion loop.
C33_SkippedScopeKept ==
    [][Starts("sync") /\ result' \in {"running", "ok"} =>
         \A p \in SkippedActive :
             /\ p \notin SeqToSet(delta'.deleted)
             /\ p \notin SeqToSet(delq')]_vars

\* ------------------------------------------------------------------ C34
\* the state file records a pages or pages_with_descendants scope
PageScopeRecorded ==
    /\ stateFile # NoFile
    /\ ~Raises(stateFile)
    /\ \E i \in 1..Len(load_state(stateFile).scopes) :
          load_state(stateFile).scopes[i].command
              \in {"pages", "pages_with_descendants"}

\* C34: every scope the pages and pages_with_descendants commands record
\* can be replayed by a later sync, also when the page was given as a URL:
\* a sync over such a state file does not end with an exception.
C34_RecordedReplayable ==
    [][Starts("sync") /\ PageScopeRecorded => result' # "raise"]_vars

\* ------------------------------------------------------------------ C35
\* a request of the replay of scopes returned a version above 0 for page
\* p: the page request for p as an argument, or the version request for p
\* as a descendant of an argument
FetchedPositive(remote, scopes, p) ==
    \E i \in 1..Len(scopes) : \E k \in 1..Len(scopes[i].args) :
        LET root == StrToInt(scopes[i].args[k])
        IN \/ root = p /\ PageFromId(remote, p).page_version > 0
           \/ /\ scopes[i].command = "pages-with-descendants"
              /\ p \in SeqToSet(Descendants(remote, root))
              /\ ~GetPageById(remote, p).raised

\* C35: within one replay, an id for which some fetch returned a positive
\* version is never mapped to sentinel 0 in the result, also when the id
\* is reached twice inside one pages-with-descendants scope.
C35_PositiveKept ==
    ret # << >> =>
        \A p \in Pages :
            FetchedPositive(RemoteOf(arg.ver, arg.lw, arg.full), arg.scopes, p)
                => /\ p \in DOMAIN ret.current_pages
                   /\ ret.current_pages[p] > 0

\* ------------------------------------------------------------------ C36
\* a sync without --force starts right after a sync --force that was
\* applied and completed with every request answered and every page
\* accessible, nothing having changed in the instance since, and gets as
\* far as its report
SyncAfterForced ==
    /\ Starts("sync")
    /\ ~cmd'.force
    /\ result' \in {"running", "ok"}
    /\ prevSync.on
    /\ prevSync.force
    /\ ~prevSync.inacc
    /\ ~prevSync.failed

\* C36: after a forced sync (not a dry run) in which every page was
\* exported successfully, min_export_timestamp stays set in the persisted
\* state, yet a later sync without --force and with no remote changes
\* classifies no page as stale: no active record is older than the
\* threshold.
C36_NoStaleAfterForce ==
    [][SyncAfterForced =>
         /\ load_state(stateFile).min_export_timestamp # NoTs
         /\ delta'.stale = << >>
         /\ \A p \in DOMAIN load_state(stateFile).pages :
               load_state(stateFile).pages[p].status = "active" =>
                  load_state(stateFile).pages[p].last_exported
                      >= load_state(stateFile).min_export_timestamp]_vars

\* the sync after a forced sync which re-exported a page has reported that
\* page unchanged
C36_Witness ==
    /\ cmd.kind = "sync"
    /\ ~cmd.force
    /\ afterSync.on
    /\ afterSync.force
    /\ ~afterSync.inacc
    /\ ~afterSync.failed
    /\ afterSync.work # {}
    /\ result \in {"running", "ok"}
    /\ load_state(stateFile).min_export_timestamp # NoTs
    /\ \E p \in afterSync.work : p \in SeqToSet(delta.unchanged)

\* ------------------------------------------------------------------ C37
\* C37: the only files execute_sync itself removes are files at the
\* resolved recorded output_path of ids in delta.deleted; it removes
\* nothing for ids in new, modified, stale or unchanged, so the file at the
\* previous path of a modified page that is re-exported under a different
\* path is left in place.
C37_RemovesOnlyDeleted ==
    [][(cmd.kind = "sync" /\ pc = "run") =>
          \A f \in files \ files' :
              \E p \in SeqToSet(delta.deleted) :
                  /\ p \in DOMAIN state.pages
                  /\ f = Resolve(linkedOut, state.pages[p].output_path)
                  /\ is_relative_to_root(f)]_vars

\* a sync has re-exported a modified page under another path and is done:
\* the file at the previous path of the page is still there
C37_Witness ==
    /\ cmd.kind = "sync"
    /\ pc = "exited"
    /\ result = "ok"
    /\ \E p \in SeqToSet(delta.modified) :
          /\ p \in DOMAIN load_state(stateFile).pages
          /\ load_state(stateFile).pages[p].output_path # DefaultPath(p)
          /\ Resolve(linkedOut, DefaultPath(p)) \in files

\* ----------------------------------------- save_state by two processes
\* In SpecSave stateFile holds the state file with its text, tmpFiles the
\* temporary files with their texts, arg the position of each process in
\* save_state and ret the states passed to save_state so far.
NoSave == [pc |-> "idle", state |-> NoState, tmp_path |-> "none",
           pos |-> 0, saves |-> 0]

\* the states the processes save
SaveStates ==
    LET st == ExportState(Url1, <<ScopeEntry("pages", <<"1">>)>>)
    IN {st, update_page_state(st, 1, 1, "a.md", 0)}

TmpExists(name) == \E t \in tmpFiles : t.name = name

TmpText(name) == (CHOOSE t \in tmpFiles : t.name = name).text

WithoutTmp(name) == {t \in tmpFiles : t.name # name}

saveFrame ==
    <<envVars, cmdN, files, procVars, cmd, current, delta, saveErr, run,
      pending, prevSync, afterSync, resume, lock>>

Passed == IF ret = << >> THEN {} ELSE ret.passed

InitSave == Fresh /\ arg = [i \in Writers |-> NoSave]

\* save_state is called and NamedTemporaryFile creates the empty file
SaveCreate(i, st) ==
    /\ arg[i].pc = "idle"
    /\ arg[i].saves < MaxSaves
    /\ \E name \in NamedTemporaryFile({t.name : t \in tmpFiles}) :
          /\ tmpFiles' = WithoutTmp(name) \cup {[name |-> name, text |-> NoBytes]}
          /\ arg' = [arg EXCEPT ![i] = [pc |-> "open", state |-> st,
                                        tmp_path |-> name, pos |-> 0,
                                        saves |-> @.saves + 1]]
    /\ ret' = [passed |-> Passed \cup {st}]
    /\ UNCHANGED <<stateFile, saveFrame>>

\* fd.write(json_str), one piece
SaveWritePiece(i) ==
    /\ arg[i].pc = "open"
    /\ arg[i].pos < 2
    /\ TmpExists(arg[i].tmp_path)
    /\ tmpFiles' = WithoutTmp(arg[i].tmp_path)
                    \cup {[name |-> arg[i].tmp_path,
                           text |-> WritePiece(TmpText(arg[i].tmp_path),
                                               model_dump_json(arg[i].state),
                                               arg[i].pos + 1)]}
    /\ arg' = [arg EXCEPT ![i].pos = @ + 1]
    /\ UNCHANGED <<stateFile, ret, saveFrame>>

\* tmp_path.replace(state_file)
SaveReplace(i) ==
    /\ arg[i].pc = "open"
    /\ arg[i].pos = 2
    /\ TmpExists(arg[i].tmp_path)
    /\ stateFile' = [text |-> TmpText(arg[i].tmp_path)]
    /\ tmpFiles' = WithoutTmp(arg[i].tmp_path)
    /\ arg' = [arg EXCEPT ![i] = [NoSave EXCEPT !.saves = arg[i].saves]]
    /\ UNCHANGED <<ret, saveFrame>>

\* the write or the replace raises: the except branch unlinks the
\* temporary file
SaveRaises(i) ==
    /\ arg[i].pc = "open"
    /\ tmpFiles' = WithoutTmp(arg[i].tmp_path)
    /\ arg' = [arg EXCEPT ![i] = [NoSave EXCEPT !.saves = arg[i].saves]]
    /\ UNCHANGED <<stateFile, ret, saveFrame>>

\* the process is terminated inside save_state and another one takes its
\* place: the temporary file stays
SaveKilled(i) ==
    /\ arg[i].pc = "open"
    /\ arg' = [arg EXCEPT ![i] = [NoSave EXCEPT !.saves = arg[i].saves]]
    /\ UNCHANGED <<stateFile, tmpFiles, ret, saveFrame>>

NextSave ==
    \/ \E i \in Writers, st \in SaveStates : SaveCreate(i, st)
    \/ \E i \in Writers : SaveWritePiece(i)
    \/ \E i \in Writers : SaveReplace(i)
    \/ \E i \in Writers : SaveRaises(i)
    \/ \E i \in Writers : SaveKilled(i)

SpecSave == InitSave /\ [][NextSave]_vars

\* ------------------------------------------------------------------ C38
\* C38: with two processes running save_state on the same output directory
\* in any interleaving, the state file, whenever it exists, holds the
\* complete serialization of the state passed to one single save_state
\* call, never a partial write or a mixture of two states.
C38_WholeStateFile ==
    stateFile # NoFile =>
        \E st \in Passed : stateFile.text = WholeText(model_dump_json(st))

\* one process has replaced the state file while the other is in the
\* middle of writing another state to its temporary file
C38_Witness ==
    /\ stateFile # NoFile
    /\ \E i \in Writers :
          /\ arg[i].pc = "open"
          /\ arg[i].pos = 1
          /\ stateFile.text # WholeText(model_dump_json(arg[i].state))
          /\ \E j \in Writers : j # i /\ arg[j].saves > 0

\* ------------------------------------------------------------------ C39
\* C39: for per-scope results whose versions are all >= 0, the mapping
\* replay_scopes returns does not depend on the order of the scopes: any
\* permutation of the per-scope results merges to the same id-to-version
\* mapping.
C39_OrderIndependent ==
    ret # << >> =>
        \A f \in Permutations(1..Len(arg.results)) :
            MergeScopes(EmptyDict,
                        [i \in 1..Len(arg.results) |-> arg.results[f[i]]])
                = ret.merged

\* three scopes were merged of which the first two report different
\* versions above 0 for a page and the third the sentinel
C39_Witness ==
    /\ ret # << >>
    /\ Len(arg.results) = 3
    /\ \E p \in Pages :
          /\ \A i \in 1..3 : p \in DOMAIN arg.results[i]
          /\ arg.results[1][p] > arg.results[2][p]
          /\ arg.results[2][p] > 0
          /\ arg.results[3][p] = 0
          /\ ret.merged[p] = arg.results[1][p]
====
